---- MODULE Spec2Model ----
(***************************************************************************)
(* A model of the Turkov integration's device/API client                   *)
(* (custom_components/turkov/api.py): the cloud session of TurkovAPI, the  *)
(* dual transport of TurkovDevice and the attribute mapping of             *)
(* update_state.  Every handler is one action; what the network answers    *)
(* and how far the clock moves while a handler awaits are the action's     *)
(* inputs.                                                                 *)
(***************************************************************************)
EXTENDS Integers, Sequences, FiniteSets, TLC

(***************************************************************************)
(* Bounds of the model.                                                    *)
(***************************************************************************)
\* The clock runs over 0..MaxTime.
MaxTime == 2

(***************************************************************************)
(* Python values.  A value is a record of its type name k, its number n    *)
(* (floats are kept in tenths, which is exact for every float the model    *)
(* builds) and its string s.                                               *)
(***************************************************************************)
PyNone == [k |-> "NoneType", n |-> 0, s |-> ""]

PyBool(b) == [k |-> "bool", n |-> IF b THEN 1 ELSE 0, s |-> ""]

PyInt(i) == [k |-> "int", n |-> i, s |-> ""]

\* The float t / 10.
PyFloat(t) == [k |-> "float", n |-> t, s |-> ""]

PyStr(x) == [k |-> "str", n |-> 0, s |-> x]

IsNumber(v) == v.k \in {"bool", "int", "float"}

\* A number's value in tenths.
Tenths(v) == IF v.k = "float" THEN v.n ELSE 10 * v.n

\* bool(v): None, False, 0, 0.0 and "" are false.
Truthy(v) ==
    CASE v.k = "NoneType" -> FALSE
      [] v.k = "str" -> v.s # ""
      [] OTHER -> v.n # 0

\* a == b: numbers compare by value (True == 1 == 1.0), the rest by type and content.
PyEq(a, b) ==
    IF IsNumber(a) /\ IsNumber(b) THEN Tenths(a) = Tenths(b)
    ELSE a = b

\* a < b for a number a and the clock reading b.
PyLess(a, b) == Tenths(a) < 10 * b

(***************************************************************************)
(* Conversions: str(), int(), float() and TurkovDevice._float_less, each   *)
(* giving [exc, v]: the exception raised ("" for none) and the value.      *)
(***************************************************************************)
\* Numeric strings of up to this value are parsed.
ParseMax == 99

Digit == <<"0", "1", "2", "3", "4", "5", "6", "7", "8", "9">>

RECURSIVE NatToStr(_)
NatToStr(i) ==
    IF i < 10 THEN Digit[i + 1] ELSE NatToStr(i \div 10) \o Digit[(i % 10) + 1]

IntToStr(i) == IF i < 0 THEN "-" \o NatToStr(0 - i) ELSE NatToStr(i)

\* The decimal strings int() and float() parse, each with its value.
IntStrs ==
    {<<NatToStr(i), i>> : i \in 0..ParseMax}
        \cup {<<"-" \o NatToStr(i), 0 - i>> : i \in 1..ParseMax}

IsIntStr(x) == \E p \in IntStrs : p[1] = x

ParseInt(x) == (CHOOSE p \in IntStrs : p[1] = x)[2]

Converted(v) == [exc |-> "", v |-> v]

ConvertFails(e) == [exc |-> e, v |-> PyNone]

\* The integer part of t / 10, rounded towards zero.
Trunc10(t) == IF t < 0 THEN 0 - ((0 - t) \div 10) ELSE t \div 10

\* str(v)
py_str(v) ==
    CASE v.k = "str" -> v.s
      [] v.k = "NoneType" -> "None"
      [] v.k = "bool" -> IF v.n = 1 THEN "True" ELSE "False"
      [] v.k = "int" -> IntToStr(v.n)
      [] OTHER ->
           (IF v.n < 0 THEN "-" ELSE "")
           \o NatToStr((IF v.n < 0 THEN 0 - v.n ELSE v.n) \div 10) \o "."
           \o Digit[((IF v.n < 0 THEN 0 - v.n ELSE v.n) % 10) + 1]

\* float(v)
py_float(v) ==
    CASE v.k = "NoneType" -> ConvertFails("TypeError")
      [] v.k = "str" ->
           IF IsIntStr(v.s) THEN Converted(PyFloat(10 * ParseInt(v.s)))
           ELSE ConvertFails("ValueError")
      [] OTHER -> Converted(PyFloat(Tenths(v)))

\* int(v)
py_int(v) ==
    CASE v.k = "NoneType" -> ConvertFails("TypeError")
      [] v.k = "str" ->
           IF IsIntStr(v.s) THEN Converted(PyInt(ParseInt(v.s)))
           ELSE ConvertFails("ValueError")
      [] v.k = "float" -> Converted(PyInt(Trunc10(v.n)))
      [] OTHER -> Converted(PyInt(v.n))

\* TurkovDevice._float_less: float(x) / 10.  float(x) is a whole number for
\* every raw value of the model, so the quotient is exact in tenths.
float_less(v) ==
    LET f == py_float(v)
    IN  IF f.exc # "" THEN f ELSE Converted(PyFloat(f.v.n \div 10))

\* A converter of the attribute mapping applied to a raw value.
Convert(conv, v) ==
    CASE conv = "None" -> Converted(v)
      [] conv = "str" -> Converted(PyStr(py_str(v)))
      [] conv = "float" -> py_float(v)
      [] conv = "int" -> py_int(v)
      [] conv = "_float_less" -> float_less(v)

(***************************************************************************)
(* The state.                                                              *)
(***************************************************************************)
VARIABLES
    now,                        \* utc_to_timestamp(utcnow())
    access_token,               \* TurkovAPI._access_token
    access_token_expires_at,    \* TurkovAPI._access_token_expires_at
    refresh_token,              \* TurkovAPI._refresh_token
    refresh_token_expires_at,   \* TurkovAPI._refresh_token_expires_at
    handle_authentication,      \* TurkovAPI.handle_authentication
    profile,                    \* TurkovAPI's user_email, first_name, last_name, middle_name
    devices,                    \* TurkovAPI._devices, by id
    acall,                      \* what the API client's last operation did
    host,                       \* TurkovDevice.host
    dev_api,                    \* TurkovDevice._api is attached
    dev_type,                   \* TurkovDevice.type
    attrs,                      \* TurkovDevice's normalized attributes, by name
    dcall,                      \* what the device's last operation did
    config_entry,               \* the config entry: set up or not, and the tokens in its data
    tasks,                      \* the polls in flight on the event loop, by coordinator
    climate                     \* TurkovClimateEntity's _attr_ values

tokenVars ==
    <<access_token, access_token_expires_at, refresh_token, refresh_token_expires_at>>

accountVars == <<profile, devices>>

apiVars == <<tokenVars, handle_authentication, accountVars, acall>>

devVars == <<host, dev_api, dev_type, attrs, dcall>>

hassVars == <<config_entry, tasks, climate>>

vars == <<now, apiVars, devVars, hassVars>>

(***************************************************************************)
(* TurkovAPI: the token state and sign-in.                                 *)
(***************************************************************************)
Tokens(at, at_exp, rt, rt_exp) ==
    [access_token |-> at, access_token_expires_at |-> at_exp,
     refresh_token |-> rt, refresh_token_expires_at |-> rt_exp]

\* The token state the client holds.
Stored ==
    Tokens(access_token, access_token_expires_at, refresh_token, refresh_token_expires_at)

NoTokens == Tokens(PyNone, PyNone, PyNone, PyNone)

\* access_token_needs_update with a fault: a token expiring now counts as
\* expired.
access_token_needs_update_inclusive(tok, t) ==
    \/ ~Truthy(tok.access_token)
    \/ tok.access_token_expires_at = PyNone
    \/ Tenths(tok.access_token_expires_at) <= 10 * t

\* The property access_token_needs_update at time t.
access_token_needs_update(tok, t) ==
    \/ ~Truthy(tok.access_token)
    \/ tok.access_token_expires_at = PyNone
    \/ PyLess(tok.access_token_expires_at, t)

\* The property refresh_token_needs_update at time t.
refresh_token_needs_update(tok, t) ==
    \/ ~Truthy(tok.refresh_token)
    \/ tok.refresh_token_expires_at = PyNone
    \/ PyLess(tok.refresh_token_expires_at, t)

\* An HTTP answer: the request raised (kind names the exception), the body
\* did not parse as JSON (ContentTypeError, JSONDecodeError), or it parsed to
\* an object (data: its members) or to an array (data: its elements).
Answer(kind, data) == [kind |-> kind, data |-> data]

NoData == [f \in {} |-> PyNone]

\* What a call on a transport does: returns ret (exc = "") or raises exc.
Returned(ret) == [exc |-> "", ret |-> ret]

Raised(e) == [exc |-> e, ret |-> PyNone]

RequestErrors == {"ClientError", "CancelledError"}

SignInFields ==
    {"accessToken", "accessTokenExpiresAt", "refreshToken", "refreshTokenExpiresAt"}

\* The outcome of an operation on the token state: the exception raised
\* ("" for none), the token state left and the events of the call.
AuthResult(exc, tok, events) == [exc |-> exc, tok |-> tok, events |-> events]

\* An event of a call: what was called, the access token a request carried,
\* and the exception it ended with ("" for none).
Event(e, token, exc) == [e |-> e, token |-> token, exc |-> exc]

\* The sign-in with a fault: the expiry of the refresh token is not looked at.
SignInIgnoringRefreshExpiry(tok, resp, stamp) ==
    LET fails == [exc |-> "TurkovAPIAuthenticationError", tok |-> tok]
    IN  IF resp.kind \in RequestErrors THEN [exc |-> resp.kind, tok |-> tok]
        ELSE IF resp.kind # "object" THEN fails
        ELSE IF SignInFields \ DOMAIN resp.data # {} THEN fails
        ELSE IF py_int(resp.data["accessTokenExpiresAt"]).exc # "" THEN fails
        ELSE IF py_int(resp.data["refreshTokenExpiresAt"]).exc # "" THEN fails
        ELSE IF ~(Truthy(resp.data["accessToken"]) \/ Truthy(resp.data["refreshToken"]))
        THEN fails
        ELSE IF PyLess(py_int(resp.data["accessTokenExpiresAt"]).v, stamp) THEN fails
        ELSE [exc |-> "",
              tok |-> Tokens(resp.data["accessToken"],
                             py_int(resp.data["accessTokenExpiresAt"]).v,
                             resp.data["refreshToken"],
                             py_int(resp.data["refreshTokenExpiresAt"]).v)]

\* The sign-in with a fault: the expiry of the access token is not looked at.
SignInIgnoringAccessExpiry(tok, resp, stamp) ==
    LET fails == [exc |-> "TurkovAPIAuthenticationError", tok |-> tok]
    IN  IF resp.kind \in RequestErrors THEN [exc |-> resp.kind, tok |-> tok]
        ELSE IF resp.kind # "object" THEN fails
        ELSE IF SignInFields \ DOMAIN resp.data # {} THEN fails
        ELSE IF py_int(resp.data["accessTokenExpiresAt"]).exc # "" THEN fails
        ELSE IF py_int(resp.data["refreshTokenExpiresAt"]).exc # "" THEN fails
        ELSE IF ~(Truthy(resp.data["accessToken"]) \/ Truthy(resp.data["refreshToken"]))
        THEN fails
        ELSE IF PyLess(py_int(resp.data["refreshTokenExpiresAt"]).v, stamp) THEN fails
        ELSE [exc |-> "",
              tok |-> Tokens(resp.data["accessToken"],
                             py_int(resp.data["accessTokenExpiresAt"]).v,
                             resp.data["refreshToken"],
                             py_int(resp.data["refreshTokenExpiresAt"]).v)]

\* The sign-in with a fault: the tokens are assigned before the expiry of the
\* refresh token is looked at.
SignInAssigningEarly(tok, resp, stamp) ==
    LET early == SignInIgnoringRefreshExpiry(tok, resp, stamp)
    IN  IF early.exc = "" /\ PyLess(py_int(resp.data["refreshTokenExpiresAt"]).v, stamp)
        THEN [exc |-> "TurkovAPIAuthenticationError", tok |-> early.tok]
        ELSE early

\* The outcome of the sign-in answered by resp, the timestamp pinned after
\* the answer being stamp: the exception, and the token state left.
SignIn(tok, resp, stamp) ==
    LET fails == [exc |-> "TurkovAPIAuthenticationError", tok |-> tok]
    IN  IF resp.kind \in RequestErrors THEN [exc |-> resp.kind, tok |-> tok]
        ELSE IF resp.kind # "object" THEN fails
        ELSE IF SignInFields \ DOMAIN resp.data # {} THEN fails
        ELSE IF py_int(resp.data["accessTokenExpiresAt"]).exc # "" THEN fails
        ELSE IF py_int(resp.data["refreshTokenExpiresAt"]).exc # "" THEN fails
        ELSE IF ~(Truthy(resp.data["accessToken"]) \/ Truthy(resp.data["refreshToken"]))
        THEN fails
        ELSE IF PyLess(py_int(resp.data["accessTokenExpiresAt"]).v, stamp) THEN fails
        ELSE IF PyLess(py_int(resp.data["refreshTokenExpiresAt"]).v, stamp) THEN fails
        ELSE [exc |-> "",
              tok |-> Tokens(resp.data["accessToken"],
                             py_int(resp.data["accessTokenExpiresAt"]).v,
                             resp.data["refreshToken"],
                             py_int(resp.data["refreshTokenExpiresAt"]).v)]

\* authenticate_with_email, as an event of the call.
authenticate_with_email(tok, resp, stamp) ==
    AuthResult(SignIn(tok, resp, stamp).exc, SignIn(tok, resp, stamp).tok,
               <<Event("authenticate_with_email", PyNone, SignIn(tok, resp, stamp).exc)>>)

\* update_access_token is not implemented.
update_access_token == "NotImplementedError"

\* authenticate with a fault: the failure of the refresh exchange is raised
\* to the caller, without the sign-in.
authenticate_without_fallback(tok, t, resp, stamp) ==
    IF refresh_token_needs_update(tok, t)
    THEN AuthResult(authenticate_with_email(tok, resp, stamp).exc,
                    authenticate_with_email(tok, resp, stamp).tok,
                    <<Event("authenticate", PyNone,
                            authenticate_with_email(tok, resp, stamp).exc)>>
                        \o authenticate_with_email(tok, resp, stamp).events)
    ELSE AuthResult(update_access_token, tok,
                    <<Event("authenticate", PyNone, update_access_token),
                      Event("update_access_token", PyNone, update_access_token)>>)

\* authenticate at time t: the refresh exchange if the refresh token is
\* usable, then (unless it returned, or was cancelled) the sign-in.
authenticate(tok, t, resp, stamp) ==
    LET refresh == <<Event("update_access_token", PyNone, update_access_token)>>
        signin == authenticate_with_email(tok, resp, stamp)
    IN  IF refresh_token_needs_update(tok, t)
        THEN AuthResult(signin.exc, signin.tok,
                        <<Event("authenticate", PyNone, signin.exc)>> \o signin.events)
        ELSE IF update_access_token = ""
        THEN AuthResult("", tok, <<Event("authenticate", PyNone, "")>> \o refresh)
        ELSE IF update_access_token = "CancelledError"
        THEN AuthResult("CancelledError", tok,
                        <<Event("authenticate", PyNone, "CancelledError")>> \o refresh)
        ELSE AuthResult(signin.exc, signin.tok,
                        <<Event("authenticate", PyNone, signin.exc)>> \o refresh
                            \o signin.events)

(***************************************************************************)
(* TurkovAPI: the authenticated requests.                                  *)
(***************************************************************************)
\* An element of the array /user/devices answers with: a string holding a
\* JSON document (doc: "object", "array", or "invalid" for no JSON at all),
\* or something that is not a string.
Element(k, doc, data) == [k |-> k, doc |-> doc, data |-> data]

\* The body of get_device_state on the answer ans.
get_device_state(ans) ==
    IF ans.kind \in RequestErrors THEN Raised(ans.kind)
    ELSE IF ans.kind \in {"ContentTypeError", "JSONDecodeError"} THEN Raised("TurkovAPIError")
    ELSE IF ans.kind # "array" THEN Raised("TurkovAPIError")
    ELSE IF Len(ans.data) = 0 THEN Raised("TurkovAPIError")
    ELSE IF ans.data[Len(ans.data)].k # "str" THEN Raised("TypeError")
    ELSE IF ans.data[Len(ans.data)].doc = "invalid" THEN Raised("TurkovAPIError")
    ELSE IF ans.data[Len(ans.data)].doc # "object" THEN Raised("TurkovAPIError")
    ELSE Returned(ans.data[Len(ans.data)].data)

\* set_device_value with a fault: any message is taken for success.
set_device_value_any_message(ans) ==
    IF ans.kind \in RequestErrors THEN Raised(ans.kind)
    ELSE IF ans.kind # "object" THEN Raised("TurkovAPIError")
    ELSE IF "message" \notin DOMAIN ans.data THEN Raised("TurkovAPIError")
    ELSE Returned(PyNone)

\* The body of set_device_value on the answer ans.
set_device_value(ans) ==
    IF ans.kind \in RequestErrors THEN Raised(ans.kind)
    ELSE IF ans.kind \in {"ContentTypeError", "JSONDecodeError"} THEN Raised("TurkovAPIError")
    ELSE IF ans.kind # "object" THEN Raised("TurkovAPIError")
    ELSE IF "message" \notin DOMAIN ans.data THEN Raised("TurkovAPIError")
    ELSE IF ans.data["message"] # PyStr("success") THEN Raised("TurkovAPIError")
    ELSE Returned(PyNone)

UserFields == {"devices", "userEmail", "firstName", "lastName", "fathersName"}

\* The members of a device entry the loop reads after the id, in its order.
DeviceFieldOrder == <<"deviceType", "deviceName", "serialNumber", "pin", "firmVer">>

\* The attribute of the device each of them is assigned to.
DeviceAttr ==
    [deviceType |-> "type", deviceName |-> "name", serialNumber |-> "serial_number",
     pin |-> "pin", firmVer |-> "firmware_version"]

\* TurkovDevice(id_, self)
NewDevice(id) ==
    [id |-> id, type |-> PyNone, name |-> PyNone, serial_number |-> PyNone,
     pin |-> PyNone, firmware_version |-> PyNone]

\* The first member of DeviceFieldOrder the entry lacks (0: none).
FirstMissing(entry) ==
    IF \A i \in DOMAIN DeviceFieldOrder : DeviceFieldOrder[i] \in DOMAIN entry THEN 0
    ELSE CHOOSE i \in DOMAIN DeviceFieldOrder :
            /\ DeviceFieldOrder[i] \notin DOMAIN entry
            /\ \A j \in 1..(i - 1) : DeviceFieldOrder[j] \in DOMAIN entry

\* The five assignments from the entry, up to the first member it lacks.
AssignFields(dev, entry, missing) ==
    [a \in DOMAIN dev |->
        IF \E i \in DOMAIN DeviceFieldOrder :
              /\ DeviceAttr[DeviceFieldOrder[i]] = a
              /\ (missing = 0 \/ i < missing)
        THEN entry[CHOOSE f \in DOMAIN entry : f \in DOMAIN DeviceAttr /\ DeviceAttr[f] = a]
        ELSE dev[a]]

Put(reg, id, dev) == [x \in DOMAIN reg \cup {id} |-> IF x = id THEN dev ELSE reg[x]]

\* The state of the reconciliation loop: the registry, the leftover ids, the
\* ids a device was constructed for, and the exception that ended it.
Loop(reg, leftover, created, exc) ==
    [reg |-> reg, leftover |-> leftover, created |-> created, exc |-> exc]

\* One iteration of the loop over the entries of the answer.
Reconciled(acc, entry) ==
    IF "_id" \notin DOMAIN entry \/ ~Truthy(entry["_id"]) THEN acc
    ELSE LET id == entry["_id"].s
             known == id \in DOMAIN acc.reg
             missing == FirstMissing(entry)
             dev == AssignFields(IF known THEN acc.reg[id] ELSE NewDevice(id),
                                 entry, missing)
         IN  Loop(Put(acc.reg, id, dev),
                  IF known THEN acc.leftover \ {id} ELSE acc.leftover,
                  IF known THEN acc.created ELSE acc.created \cup {id},
                  IF missing = 0 THEN "" ELSE "KeyError")

RECURSIVE Reconcile(_, _, _)
Reconcile(entries, i, acc) ==
    IF i > Len(entries) \/ acc.exc # "" THEN acc
    ELSE Reconcile(entries, i + 1, Reconciled(acc, entries[i]))

Account(prof, reg) == [profile |-> prof, devices |-> reg]

\* The outcome of a request body: exception, returned value, the account
\* state left, and the ids a device was constructed for.
Outcome(exc, ret, acct, created) ==
    [exc |-> exc, ret |-> ret, acct |-> acct, created |-> created]

\* The end with a fault: the leftover devices stay registered.
NothingDiscarded(prof, loop) ==
    Outcome(loop.exc, PyNone, Account(prof, loop.reg), loop.created)

\* The end of update_user_data, after the loop: the leftover devices are
\* discarded unless the loop raised.
Discarded(prof, loop) ==
    IF loop.exc # ""
    THEN Outcome(loop.exc, PyNone, Account(prof, loop.reg), loop.created)
    ELSE Outcome("", PyNone,
                 Account(prof, [id \in DOMAIN loop.reg \ loop.leftover |-> loop.reg[id]]),
                 loop.created)

\* The body of update_user_data on the answer ans.
update_user_data(acct, ans) ==
    IF ans.kind \in RequestErrors \cup {"ContentTypeError"}
    THEN Outcome(ans.kind, PyNone, acct, {})
    ELSE IF ans.kind = "JSONDecodeError"
    THEN Outcome("TurkovAPIAuthenticationError", PyNone, acct, {})
    ELSE IF ans.kind # "object" THEN Outcome("TypeError", PyNone, acct, {})
    ELSE IF UserFields \ DOMAIN ans.data # {}
    THEN Outcome("TurkovAPIAuthenticationError", PyNone, acct, {})
    ELSE Discarded([user_email |-> ans.data["userEmail"],
                    first_name |-> ans.data["firstName"],
                    last_name |-> ans.data["lastName"],
                    middle_name |-> ans.data["fathersName"]],
                   Reconcile(ans.data["devices"], 1,
                             Loop(acct.devices, DOMAIN acct.devices, {}, "")))

\* fn(self, *args): the body of the operation op.
Body(op, acct, ans) ==
    CASE op = "update_user_data" -> update_user_data(acct, ans)
      [] op = "get_device_state" ->
            Outcome(get_device_state(ans).exc, get_device_state(ans).ret, acct, {})
      [] op = "set_device_value" ->
            Outcome(set_device_value(ans).exc, set_device_value(ans).ret, acct, {})

\* The outcome of a decorated call: that of the last body run, with the token
\* state left, the events of the call, and the answer the last body run got.
Call(out, tok, events, ans) ==
    [exc |-> out.exc, ret |-> out.ret, acct |-> out.acct, created |-> out.created,
     tok |-> tok, events |-> events, ans |-> ans]

NoAnswer == Answer("none", NoData)

\* prepare_authenticated_request: a request carrying the stored access
\* token, which the body run on its answer ended with exc.
prepare_authenticated_request(tok, exc) == <<Event("request", tok.access_token, exc)>>

\* Whether the decorator runs authenticate() in a call whose first body
\* would get the answer a1: before it, or after its authentication error.
Authenticates(op, ha, tok, acct, t, a1) ==
    ha /\ (\/ access_token_needs_update(tok, t)
           \/ Body(op, acct, a1).exc = "TurkovAPIAuthenticationError")

\* The execution with a fault: after re-authenticating it returns the first
\* failure instead of sending the request again.
PerformWithoutRetry(op, ha, authentication_attempted, tok, first, a1, a2, au, before) ==
    IF first.exc = "TurkovAPIAuthenticationError"
        /\ ~(authentication_attempted \/ ~ha)
    THEN Call(IF au.exc # "" THEN Outcome(au.exc, PyNone, first.acct, first.created)
              ELSE first,
              au.tok,
              before \o prepare_authenticated_request(tok, first.exc) \o au.events, a1)
    ELSE Call(first, tok, before \o prepare_authenticated_request(tok, first.exc), a1)

\* The execution with a fault: it forgets that authentication was already
\* attempted, and authenticates and retries after it all the same.
PerformForgetful(op, ha, authentication_attempted, tok, first, a1, a2, au, before) ==
    IF first.exc = "TurkovAPIAuthenticationError" /\ ha
    THEN IF au.exc # ""
         THEN Call(Outcome(au.exc, PyNone, first.acct, first.created), au.tok,
                   before \o prepare_authenticated_request(tok, first.exc) \o au.events,
                   a1)
         ELSE Call(Body(op, first.acct, a2), au.tok,
                   before \o prepare_authenticated_request(tok, first.exc) \o au.events
                       \o prepare_authenticated_request(au.tok,
                                                        Body(op, first.acct, a2).exc),
                   a2)
    ELSE Call(first, tok, before \o prepare_authenticated_request(tok, first.exc), a1)

\* The execution with a fault: the request sent again carries the access
\* token the first request carried.
PerformWithStaleToken(op, ha, authentication_attempted, tok, first, a1, a2, au, before) ==
    IF first.exc = "TurkovAPIAuthenticationError"
        /\ ~(authentication_attempted \/ ~ha)
    THEN IF au.exc # ""
         THEN Call(Outcome(au.exc, PyNone, first.acct, first.created), au.tok,
                   before \o prepare_authenticated_request(tok, first.exc) \o au.events,
                   a1)
         ELSE Call(Body(op, first.acct, a2), au.tok,
                   before \o prepare_authenticated_request(tok, first.exc) \o au.events
                       \o prepare_authenticated_request(tok,
                                                        Body(op, first.acct, a2).exc),
                   a2)
    ELSE Call(first, tok, before \o prepare_authenticated_request(tok, first.exc), a1)

\* The execution in the decorator: first is the outcome of the body on the
\* answer a1, sent with the token state tok after the events before; au is
\* the outcome of authenticate() should the except clause call it, and a2
\* then answers the second request.
Perform(op, ha, authentication_attempted, tok, first, a1, a2, au, before) ==
    IF first.exc = "TurkovAPIAuthenticationError"
        /\ ~(authentication_attempted \/ ~ha)
    THEN IF au.exc # ""
         THEN Call(Outcome(au.exc, PyNone, first.acct, first.created), au.tok,
                   before \o prepare_authenticated_request(tok, first.exc) \o au.events,
                   a1)
         ELSE Call(Body(op, first.acct, a2), au.tok,
                   before \o prepare_authenticated_request(tok, first.exc) \o au.events
                       \o prepare_authenticated_request(au.tok,
                                                        Body(op, first.acct, a2).exc),
                   a2)
    ELSE Call(first, tok, before \o prepare_authenticated_request(tok, first.exc), a1)

\* The preliminary authentication in the decorator, au its outcome.
Preliminary(op, ha, tok, acct, a1, a2, au) ==
    IF au.exc # "" THEN Call(Outcome(au.exc, PyNone, acct, {}), au.tok, au.events, NoAnswer)
    ELSE Perform(op, ha, TRUE, au.tok, Body(op, acct, a1), a1, a2, au, au.events)

\* The decorator with a fault: it never authenticates before the request.
handle_without_preliminary(op, ha, tok, acct, t, a1, a2, resp, stamp) ==
    Perform(op, ha, FALSE, tok, Body(op, acct, a1), a1, a2,
            authenticate(tok, t, resp, stamp), <<>>)

\* The decorator _handle_preliminary_auth around the operation op, at time
\* t: a1 and a2 answer the first and the second request, resp the sign-in.
handle_preliminary_auth(op, ha, tok, acct, t, a1, a2, resp, stamp) ==
    IF ha /\ access_token_needs_update(tok, t)
    THEN Preliminary(op, ha, tok, acct, a1, a2, authenticate(tok, t, resp, stamp))
    ELSE Perform(op, ha, FALSE, tok, Body(op, acct, a1), a1, a2,
                 authenticate(tok, t, resp, stamp), <<>>)

(***************************************************************************)
(* The sign-in answers of the model.                                       *)
(***************************************************************************)
SignInBody(at, at_exp, rt, rt_exp) ==
    [f \in SignInFields |->
        CASE f = "accessToken" -> at
          [] f = "accessTokenExpiresAt" -> at_exp
          [] f = "refreshToken" -> rt
          [] f = "refreshTokenExpiresAt" -> rt_exp]

Without(data, f) == [g \in DOMAIN data \ {f} |-> data[g]]

GoodSignIn ==
    SignInBody(PyStr("tokA"), PyInt(MaxTime), PyStr("tokR"), PyInt(MaxTime))

\* Token pairs of a sign-in body: both, either one empty, none.
TokenPairs ==
    { <<PyStr("tokA"), PyStr("tokR")>>, <<PyStr(""), PyStr("tokR")>>,
      <<PyStr("tokA"), PyNone>>, <<PyNone, PyStr("")>> }

\* Expiry pairs of a sign-in body: one of the two anywhere on the clock.
ExpiryPairs ==
    {<<PyInt(e), PyInt(MaxTime)>> : e \in 0..MaxTime}
        \cup {<<PyInt(MaxTime), PyInt(e)>> : e \in 0..MaxTime}
        \cup {<<PyStr("1"), PyInt(MaxTime)>>}

SignInAnswers ==
    {Answer(k, NoData) :
        k \in RequestErrors \cup {"ContentTypeError", "JSONDecodeError", "array"}}
    \cup {Answer("object", SignInBody(tp[1], ep[1], tp[2], ep[2])) :
            tp \in TokenPairs, ep \in ExpiryPairs}
    \cup {Answer("object", Without(GoodSignIn, f)) : f \in SignInFields}
    \cup {Answer("object", [GoodSignIn EXCEPT !["accessTokenExpiresAt"] = PyStr("never")]),
          Answer("object", [GoodSignIn EXCEPT !["refreshTokenExpiresAt"] = PyNone]),
          Answer("object", [f \in {"message"} |-> PyStr("Wrong password")])}

(***************************************************************************)
(* TurkovDevice: the attribute mapping table.                              *)
(***************************************************************************)
BASE_URL == "https://turkovwifi.ru"

\* TurkovDevice._id of the modelled device.
DeviceId == "dev1"

IMAGES_BY_DEVICE_TYPE ==
    [t \in {"Zenit", "Capsule", "i-Vent"} |->
        CASE t = "Zenit" -> "/images/zenit.jpg"
          [] t = "Capsule" -> "/images/capsule.jpg"
          [] t = "i-Vent" -> "/images/ivent.jpg"]

\* The attributes in the order ATTRIBUTE_KEY_MAPPING lists them.
AttrOrder ==
    << "is_on", "fan_speed", "fan_mode", "target_temperature", "selected_mode",
       "setup", "filter_life_percentage", "outdoor_temperature",
       "indoor_temperature", "image_url", "indoor_humidity", "air_pressure",
       "co2_level", "current_temperature", "current_humidity", "target_humidity" >>

AttrNames == {AttrOrder[i] : i \in DOMAIN AttrOrder}

Mapped(key, conv) == [key |-> key, conv |-> conv]

\* conv "None" is no converter, conv "False" the entry update_state skips.
ATTRIBUTE_KEY_MAPPING ==
    [ is_on |-> Mapped("on", "None"),
      fan_speed |-> Mapped("fan_speed", "str"),
      fan_mode |-> Mapped("fan_mode", "None"),
      target_temperature |-> Mapped("temp_sp", "float"),
      selected_mode |-> Mapped("mode", "str"),
      setup |-> Mapped("setup", "str"),
      filter_life_percentage |-> Mapped("filter", "float"),
      outdoor_temperature |-> Mapped("out_temp", "_float_less"),
      indoor_temperature |-> Mapped("in_temp", "_float_less"),
      image_url |-> Mapped("image", "False"),
      indoor_humidity |-> Mapped("in_humid", "_float_less"),
      air_pressure |-> Mapped("air_press", "float"),
      co2_level |-> Mapped("CO2_level", "float"),
      current_temperature |-> Mapped("temp_curr", "_float_less"),
      current_humidity |-> Mapped("hum_curr", "_float_less"),
      target_humidity |-> Mapped("hum_sp", "int") ]

RawKeys == {ATTRIBUTE_KEY_MAPPING[a].key : a \in AttrNames}

(***************************************************************************)
(* The raw payloads the model feeds the device: two readings of every raw  *)
(* key; a payload carries all keys or none, or, in the second reading, all *)
(* keys but one of LeftOutKeys (one raw key of each converter).            *)
(***************************************************************************)
RawValue(key, i) ==
    CASE key = "on" -> PyBool(i = 1)
      [] key = "fan_speed" -> IF i = 1 THEN PyStr("1") ELSE PyInt(2)
      [] key = "fan_mode" -> IF i = 1 THEN PyStr("auto") ELSE PyStr("manual")
      [] key = "temp_sp" -> IF i = 1 THEN PyInt(22) ELSE PyStr("23")
      [] key = "mode" -> IF i = 1 THEN PyStr("none") ELSE PyStr("heating")
      [] key = "setup" -> IF i = 1 THEN PyStr("heating") ELSE PyStr("both")
      [] key = "filter" -> IF i = 1 THEN PyInt(90) ELSE PyStr("80")
      [] key = "out_temp" -> IF i = 1 THEN PyInt(-50) ELSE PyInt(125)
      [] key = "in_temp" -> IF i = 1 THEN PyInt(215) ELSE PyStr("95")
      [] key = "image" -> IF i = 1 THEN PyStr("img1") ELSE PyStr("img2")
      [] key = "in_humid" -> IF i = 1 THEN PyInt(450) ELSE PyInt(500)
      [] key = "air_press" -> IF i = 1 THEN PyInt(100) ELSE PyInt(101)
      [] key = "CO2_level" -> IF i = 1 THEN PyInt(60) ELSE PyInt(70)
      [] key = "temp_curr" -> IF i = 1 THEN PyInt(220) ELSE PyInt(230)
      [] key = "hum_curr" -> IF i = 1 THEN PyInt(400) ELSE PyInt(410)
      [] key = "hum_sp" -> IF i = 1 THEN PyInt(45) ELSE PyStr("50")

Payload(K, i) == [k \in K |-> RawValue(k, i)]

LeftOutKeys == {"on", "fan_speed", "temp_sp", "out_temp", "hum_sp", "image"}

Payloads ==
    {Payload(RawKeys, 1), Payload(RawKeys, 2), Payload({}, 1)}
        \cup {Payload(RawKeys \ {k}, 2) : k \in LeftOutKeys}

(***************************************************************************)
(* TurkovDevice: the transport selector.                                   *)
(***************************************************************************)
HostName == PyStr("192.168.1.10")

\* The exceptions get_state and set_value intercept around the local call.
LocalFallbackErrors == {"ClientError", "TimeoutError", "JSONDecodeError"}

\* One HTTP request as the log keeps it.
Request(via, what, key, value) ==
    [via |-> via, what |-> what, key |-> key, value |-> value]

\* get_state with a fault: a failed local request is never made up for.
get_state_without_fallback(h, api, lo, co) ==
    IF Truthy(h) /\ lo.exc # ""
    THEN [reqs |-> <<Request("local", "state", "", PyNone)>>, res |-> Raised(lo.exc)]
    ELSE IF api
    THEN [reqs |-> (IF Truthy(h) THEN <<Request("local", "state", "", PyNone)>> ELSE <<>>)
                      \o <<Request("cloud", "state", "", PyNone)>>,
          res |-> co]
    ELSE [reqs |-> IF Truthy(h) THEN <<Request("local", "state", "", PyNone)>> ELSE <<>>,
          res |-> Raised("TurkovAPIError")]

\* get_state with the answers lo of the local GET /state and co of the
\* cloud's get_device_state: the requests made and the call's result.
get_state(h, api, lo, co) ==
    LET local == IF Truthy(h) THEN <<Request("local", "state", "", PyNone)>> ELSE <<>>
        cloud == <<Request("cloud", "state", "", PyNone)>>
    IN  IF Truthy(h) /\ lo.exc # "" /\ (lo.exc \notin LocalFallbackErrors \/ ~api)
        THEN [reqs |-> local, res |-> Raised(lo.exc)]
        ELSE IF api
        THEN [reqs |-> local \o cloud, res |-> co]
        ELSE [reqs |-> local, res |-> Raised("TurkovAPIError")]

\* set_value(key, value) with the answers lo of the local POST /command and
\* co of the cloud's set_device_value.
set_value(h, api, key, value, lo, co) ==
    LET local == IF Truthy(h) THEN <<Request("local", "command", key, value)>> ELSE <<>>
        cloud == <<Request("cloud", "command", key, value)>>
    IN  IF Truthy(h) /\ lo.exc = "CancelledError"
        THEN [reqs |-> local, res |-> Raised(lo.exc)]
        ELSE IF Truthy(h) /\ lo.exc # "" /\ (lo.exc \notin LocalFallbackErrors \/ ~api)
        THEN [reqs |-> local, res |-> Raised(lo.exc)]
        ELSE IF api
        THEN [reqs |-> local \o cloud, res |-> co]
        ELSE [reqs |-> local, res |-> Raised("TurkovAPIError")]

(***************************************************************************)
(* TurkovDevice: the setters that validate a value and send it.            *)
(***************************************************************************)
\* A setter that raised exc before it called set_value.
Rejected(exc) == [reqs |-> <<>>, res |-> Raised(exc)]

\* set_fan_speed with a fault: every code is sent.
set_fan_speed_unchecked(h, api, fan_speed, lo, co) ==
    set_value(h, api, "fan_speed", fan_speed, lo, co)

FanSpeeds == {PyStr(c) : c \in {"A", "0", "1", "2", "3"}}

set_fan_speed(h, api, fan_speed, lo, co) ==
    IF fan_speed \notin FanSpeeds THEN Rejected("TurkovAPIValueError")
    ELSE set_value(h, api, "fan_speed", fan_speed, lo, co)

\* A setter of a whole number within [low, high]: int(value), the check of
\* the bounds, then set_value(key, int(value)).
set_bounded(h, api, key, value, low, high, lo, co) ==
    IF py_int(value).exc # "" THEN Rejected(py_int(value).exc)
    ELSE IF ~(low <= py_int(value).v.n /\ py_int(value).v.n <= high)
    THEN Rejected("TurkovAPIValueError")
    ELSE set_value(h, api, key, py_int(value).v, lo, co)

\* set_target_temperature with a fault: the bounds themselves are rejected.
set_target_temperature_exclusive(h, api, target_temperature, lo, co) ==
    set_bounded(h, api, "temp_sp", target_temperature, 16, 49, lo, co)

set_target_temperature(h, api, target_temperature, lo, co) ==
    set_bounded(h, api, "temp_sp", target_temperature, 15, 50, lo, co)

\* set_target_humidity with a fault: the bounds themselves are rejected.
set_target_humidity_exclusive(h, api, target_humidity, lo, co) ==
    set_bounded(h, api, "hum_sp", target_humidity, 41, 99, lo, co)

set_target_humidity(h, api, target_humidity, lo, co) ==
    set_bounded(h, api, "hum_sp", target_humidity, 40, 100, lo, co)

(***************************************************************************)
(* TurkovDevice.update_state: the mapping applied to a fetched payload.    *)
(***************************************************************************)
\* set_attribute of update_state on st = [attrs, changed, exc].
set_attribute(st, a, value) ==
    [st EXCEPT !.attrs[a] = value, !.changed = @ \cup {a}]

AttrIndex(a) == CHOOSE i \in DOMAIN AttrOrder : AttrOrder[i] = a

\* The loop with a fault: absent keys are marked whatever the flag.
VisitsMarking(a, data, flag) == ATTRIBUTE_KEY_MAPPING[a].conv # "False"

\* The loop with a fault: absent keys are skipped whatever the flag.
VisitsSkipping(a, data, flag) ==
    /\ ATTRIBUTE_KEY_MAPPING[a].conv # "False"
    /\ ATTRIBUTE_KEY_MAPPING[a].key \in DOMAIN data

\* The generic loop reaches the comparison for attribute a: its entry is not
\* the skipped one, and its raw key is present or absent keys are marked.
Visits(a, data, flag) ==
    /\ ATTRIBUTE_KEY_MAPPING[a].conv # "False"
    /\ ATTRIBUTE_KEY_MAPPING[a].key \in DOMAIN data \/ flag

\* The value the loop computes for attribute a, or the converter's exception.
NewValue(a, data) ==
    IF ATTRIBUTE_KEY_MAPPING[a].key \in DOMAIN data
    THEN Convert(ATTRIBUTE_KEY_MAPPING[a].conv, data[ATTRIBUTE_KEY_MAPPING[a].key])
    ELSE Converted(PyNone)

\* The position at which a converter raises and ends the loop (past the end: none).
FirstFailure(data, flag) ==
    LET bad == {i \in DOMAIN AttrOrder :
                    Visits(AttrOrder[i], data, flag) /\ NewValue(AttrOrder[i], data).exc # ""}
    IN  IF bad = {} THEN Len(AttrOrder) + 1
        ELSE CHOOSE i \in bad : \A j \in bad : i <= j

\* The loop with a fault: a visited attribute is set without the comparison.
SetsUncompared(a, old, data, flag, stop) ==
    /\ AttrIndex(a) < stop
    /\ Visits(a, data, flag)

\* The loop sets attribute a: it is visited before the loop ends at stop, and
\* the value computed differs from the attribute's.
Sets(a, old, data, flag, stop) ==
    /\ AttrIndex(a) < stop
    /\ Visits(a, data, flag)
    /\ ~PyEq(NewValue(a, data).v, old[a])

\* The loop with a fault: attributes are set without being reported.
MappingResultUnreported(old, data, flag, stop) ==
    [attrs |-> [a \in AttrNames |->
                   IF Sets(a, old, data, flag, stop) THEN NewValue(a, data).v ELSE old[a]],
     changed |-> {},
     exc |-> IF stop > Len(AttrOrder) THEN "" ELSE NewValue(AttrOrder[stop], data).exc]

MappingResult(old, data, flag, stop) ==
    [attrs |-> [a \in AttrNames |->
                   IF Sets(a, old, data, flag, stop) THEN NewValue(a, data).v ELSE old[a]],
     changed |-> {a \in AttrNames : Sets(a, old, data, flag, stop)},
     exc |-> IF stop > Len(AttrOrder) THEN "" ELSE NewValue(AttrOrder[stop], data).exc]

\* The generic loop of update_state over the mapping, in the table's order:
\* every attribute before the first failure is compared and, if different, set.
apply_mapping(old, data, flag) ==
    MappingResult(old, data, flag, FirstFailure(data, flag))

\* The image URL update_state derives from the payload and the device type.
derived_image_url(data, type) ==
    IF "image" \in DOMAIN data /\ Truthy(data["image"])
    THEN PyStr(BASE_URL \o "/upload/" \o DeviceId \o "_" \o py_str(data["image"]) \o ".jpg")
    ELSE IF type.k = "str" /\ type.s \in DOMAIN IMAGES_BY_DEVICE_TYPE
    THEN PyStr(BASE_URL \o IMAGES_BY_DEVICE_TYPE[type.s])
    ELSE PyNone

\* The custom attribute handling of update_state.
apply_image(st, data, type, flag) ==
    LET image_url == derived_image_url(data, type)
    IN  IF st.exc # "" THEN st
        ELSE IF (IF flag
                 THEN image_url = PyNone /\ st.attrs["image_url"] # PyNone
                 ELSE ~PyEq(st.attrs["image_url"], image_url))
        THEN set_attribute(st, "image_url", image_url)
        ELSE st

\* update_state after get_state returned data: [attrs, changed, exc].
apply_state(old, data, type, flag) ==
    apply_image(apply_mapping(old, data, flag), data, type, flag)

(***************************************************************************)
(* The device's operations as actions.                                     *)
(***************************************************************************)
EmptyPayload == [k \in {} |-> PyNone]

\* What the local endpoint may answer; its payload is one of two.
LocalErrors == LocalFallbackErrors \cup {"CancelledError"}

LocalStateAnswers ==
    {Returned(Payload(RawKeys, 1))} \cup {Raised(e) : e \in LocalErrors}

LocalCommandAnswers == {Returned(PyNone)} \cup {Raised(e) : e \in LocalErrors}

\* What the cloud client's get_device_state and set_device_value may do.
CloudErrors ==
    {"TurkovAPIError", "TurkovAPIAuthenticationError", "ClientError", "CancelledError"}

CloudStateAnswers == {Returned(p) : p \in Payloads} \cup {Raised(e) : e \in CloudErrors}

\* The answers a poll of the device meets.
PollLocalAnswers ==
    {Returned(Payload(RawKeys, 1)), Raised("TimeoutError")}

\* A payload whose filter is null: float(None) raises in the middle of the
\* mapping.
NullFilterPayload == [Payload(RawKeys, 2) EXCEPT !["filter"] = PyNone]

PollCloudAnswers ==
    {Returned(p) : p \in Payloads \cup {NullFilterPayload}} \cup {Raised("TurkovAPIError")}

CloudCommandAnswers == {Returned(PyNone)} \cup {Raised(e) : e \in CloudErrors}

\* The (key, value) pairs the device's command methods send.
Commands ==
    { <<"on", PyStr("true")>>, <<"on", PyStr("false")>>,
      <<"mode", PyStr("1")>>, <<"mode", PyStr("0")>> }

\* The log of an operation; local_ok: the local request was made and answered;
\* local_exc: the exception the local request raised; cloud: the answer of the
\* cloud, if it was asked; poll_exc: what the coordinator's poll raised.
DeviceLog(op, flag, key, value, lo, co, r, data, changed) ==
    [op |-> op, flag |-> flag, key |-> key, value |-> value,
     local_ok |-> Truthy(host) /\ lo.exc = "",
     local_exc |-> IF Truthy(host) THEN lo.exc ELSE "",
     cloud |-> IF \E i \in DOMAIN r.reqs : r.reqs[i].via = "cloud" THEN co
               ELSE Returned(PyNone),
     reqs |-> r.reqs, exc |-> r.res.exc, data |-> data, changed |-> changed,
     poll_exc |-> "", arg |-> value]

get_state_call ==
    \E lo \in LocalStateAnswers, co \in CloudStateAnswers :
    \E r \in {get_state(host, dev_api, lo, co)} :
        /\ dcall' = DeviceLog("get_state", FALSE, "", PyNone, lo, co, r,
                              IF r.res.exc = "" THEN r.res.ret ELSE EmptyPayload, {})
        /\ UNCHANGED <<hassVars, now, apiVars, host, dev_api, dev_type, attrs>>

set_value_call ==
    \E c \in Commands, lo \in LocalCommandAnswers, co \in CloudCommandAnswers :
    \E r \in {set_value(host, dev_api, c[1], c[2], lo, co)} :
        /\ dcall' = DeviceLog("set_value", FALSE, c[1], c[2], lo, co, r,
                              EmptyPayload, {})
        /\ UNCHANGED <<hassVars, now, apiVars, host, dev_api, dev_type, attrs>>

\* update_state: get_state, then the mapping; a failed get_state changes nothing.
update_state_call ==
    \E flag \in BOOLEAN, lo \in PollLocalAnswers, co \in PollCloudAnswers :
    \E r \in {get_state(host, dev_api, lo, co)} :
        IF r.res.exc # ""
        THEN /\ dcall' = DeviceLog("update_state", flag, "", PyNone, lo, co,
                                   r, EmptyPayload, {})
             /\ UNCHANGED <<hassVars, now, apiVars, host, dev_api, dev_type, attrs>>
        ELSE \E st \in {apply_state(attrs, r.res.ret, dev_type, flag)} :
             /\ attrs' = st.attrs
             /\ dcall' = [DeviceLog("update_state", flag, "", PyNone, lo, co,
                                    r, r.res.ret, st.changed)
                          EXCEPT !.exc = st.exc]
             /\ UNCHANGED <<hassVars, now, apiVars, host, dev_api, dev_type>>

\* The values the climate entity hands to the setters: fan speed codes and
\* others, temperatures and humidities around the bounds, as whole numbers,
\* as floats and as text.
FanSpeedInputs == FanSpeeds \cup {PyStr("4"), PyStr("auto"), PyStr("")}

TemperatureInputs ==
    {PyInt(i) : i \in {14, 15, 22, 50, 51}}
        \cup {PyFloat(149), PyFloat(505), PyStr("20"), PyNone}

HumidityInputs ==
    {PyInt(i) : i \in {39, 40, 55, 100, 101}}
        \cup {PyFloat(399), PyFloat(1005), PyStr("45"), PyNone}

\* The log of a setter called with arg whose run was r.
SetterLog(op, key, arg, lo, co, r) ==
    [DeviceLog(op, FALSE, key, PyNone, lo, co, r, EmptyPayload, {}) EXCEPT !.arg = arg]

set_fan_speed_call ==
    \E v \in FanSpeedInputs, lo \in LocalCommandAnswers, co \in CloudCommandAnswers :
    \E r \in {set_fan_speed(host, dev_api, v, lo, co)} :
        /\ dcall' = SetterLog("set_fan_speed", "fan_speed", v, lo, co, r)
        /\ UNCHANGED <<hassVars, now, apiVars, host, dev_api, dev_type, attrs>>

set_target_temperature_call ==
    \E v \in TemperatureInputs, lo \in LocalCommandAnswers, co \in CloudCommandAnswers :
    \E r \in {set_target_temperature(host, dev_api, v, lo, co)} :
        /\ dcall' = SetterLog("set_target_temperature", "temp_sp", v, lo, co, r)
        /\ UNCHANGED <<hassVars, now, apiVars, host, dev_api, dev_type, attrs>>

set_target_humidity_call ==
    \E v \in HumidityInputs, lo \in LocalCommandAnswers, co \in CloudCommandAnswers :
    \E r \in {set_target_humidity(host, dev_api, v, lo, co)} :
        /\ dcall' = SetterLog("set_target_humidity", "hum_sp", v, lo, co, r)
        /\ UNCHANGED <<hassVars, now, apiVars, host, dev_api, dev_type, attrs>>

DeviceTypes == {PyNone, PyStr("Zenit")}

NoCall ==
    [op |-> "init", flag |-> FALSE, key |-> "", value |-> PyNone,
     local_ok |-> FALSE, local_exc |-> "", cloud |-> Returned(PyNone),
     reqs |-> <<>>, exc |-> "", data |-> EmptyPayload, changed |-> {},
     poll_exc |-> "", arg |-> PyNone]

DeviceInit ==
    /\ host \in {PyNone, HostName}
    /\ dev_api \in BOOLEAN
    /\ dev_type \in DeviceTypes
    /\ attrs = [a \in AttrNames |-> PyNone]
    /\ dcall = NoCall

(***************************************************************************)
(* The other answers of the model.                                         *)
(***************************************************************************)
DeviceEntry(id, type, name, serial, pin, firmware) ==
    [_id |-> id, deviceType |-> type, deviceName |-> name, serialNumber |-> serial,
     pin |-> pin, firmVer |-> firmware]

EntryOf(id, i) ==
    DeviceEntry(PyStr(id), PyStr("Zenit"), PyStr(id \o IntToStr(i)), PyStr("SN-" \o id),
                PyStr("1234"), PyStr("1." \o IntToStr(i)))

\* Device entries: three devices, one of them in two readings, one without
\* a firmware version, and entries without an id or with an empty one.
DeviceEntries ==
    { EntryOf("A", 1), EntryOf("A", 2), EntryOf("B", 1), EntryOf("C", 1),
      Without(EntryOf("B", 2), "firmVer"), Without(EntryOf("C", 2), "_id"),
      [EntryOf("C", 2) EXCEPT !["_id"] = PyStr("")] }

\* The lists of at most MaxDevices entries.
MaxDevices == 2

DeviceLists == UNION {[1..n -> DeviceEntries] : n \in 0..MaxDevices}

UserData(list) ==
    [devices |-> list, userEmail |-> PyStr("user@example.org"),
     firstName |-> PyStr("Ivan"), lastName |-> PyStr("Petrov"), fathersName |-> PyNone]

UserDataErrors ==
    {Answer(k, NoData) : k \in {"ClientError", "ContentTypeError", "JSONDecodeError"}}
        \cup {Answer("object", Without(UserData(<<>>), "devices")),
              Answer("object", [f \in {"message"} |-> PyStr("Unauthorized")]),
              Answer("array", <<>>)}

UserDataAnswers == {Answer("object", UserData(list)) : list \in DeviceLists} \cup UserDataErrors

\* The answers the authentication specification draws: a good one, an
\* authentication error, a transport error.
FewUserDataAnswers ==
    { Answer("object", UserData(<<EntryOf("A", 1)>>)),
      Answer("JSONDecodeError", NoData), Answer("ClientError", NoData) }

StateAnswers ==
    { Answer("array", <<Element("str", "object", Payload(RawKeys, 1))>>),
      Answer("array", <<Element("str", "invalid", EmptyPayload),
                        Element("str", "object", Payload(RawKeys, 2))>>),
      Answer("array", <<>>),
      Answer("array", <<Element("str", "invalid", EmptyPayload)>>),
      Answer("array", <<Element("str", "array", EmptyPayload)>>),
      Answer("array", <<Element("dict", "", Payload(RawKeys, 1))>>),
      Answer("object", NoData), Answer("JSONDecodeError", NoData),
      Answer("ContentTypeError", NoData), Answer("ClientError", NoData) }

ValueAnswers ==
    { Answer("object", [f \in {"message"} |-> PyStr("success")]),
      Answer("object", [f \in {"message"} |-> PyStr("fail")]),
      Answer("object", NoData), Answer("array", <<>>),
      Answer("JSONDecodeError", NoData), Answer("ClientError", NoData) }

\* The sign-in answers authenticate() meets on the clock: an access token
\* expiring anywhere on it, an empty one beside a refresh token, a rejection
\* and a transport error.
AuthenticateAnswers ==
    {Answer("object", SignInBody(PyStr("tokA"), PyInt(e), PyStr("tokR"), PyInt(MaxTime))) :
        e \in 0..MaxTime}
    \cup { Answer("object", SignInBody(PyStr(""), PyInt(MaxTime), PyStr("tokR"), PyInt(MaxTime))),
           Answer("object", [f \in {"message"} |-> PyStr("Wrong password")]),
           Answer("ClientError", NoData) }

FewSignInAnswers ==
    { Answer("object", GoodSignIn),
      Answer("object", SignInBody(PyStr("tokB"), PyInt(1), PyStr("tokS"), PyInt(0))),
      Answer("object", [f \in {"message"} |-> PyStr("Wrong password")]),
      Answer("ClientError", NoData) }

(***************************************************************************)
(* The API client's operations as actions.                                 *)
(***************************************************************************)
\* The non-empty device ids the answer to /user lists.
ResponseIds(ans) ==
    IF ans.kind = "object" /\ "devices" \in DOMAIN ans.data
    THEN {e["_id"].s : e \in {x \in {ans.data["devices"][i] : i \in DOMAIN ans.data["devices"]} :
                                "_id" \in DOMAIN x /\ Truthy(x["_id"])}}
    ELSE {}

\* The log of an operation of the client: the operation, handle_authentication,
\* access_token_needs_update and refresh_token_needs_update as it began, the
\* registered ids before it,
\* the outcome c of the call with the ids its last answer listed, and for a
\* sign-in its answer, the time it began and the timestamp it pinned; kind
\* and lacks: what response.json() made of the last answer, and the members
\* update_user_data reads that it lacked; data: the document the last answer
\* to get_device_state or set_device_value carried.
ApiLog(op, c, resp, stamp) ==
    [op |-> op, ha |-> handle_authentication,
     needs |-> access_token_needs_update(Stored, now),
     rneeds |-> refresh_token_needs_update(Stored, now), prior |-> DOMAIN devices,
     events |-> c.events, exc |-> c.exc, ret |-> c.ret, ids |-> ResponseIds(c.ans),
     created |-> c.created, resp |-> resp, start |-> now, stamp |-> stamp,
     kind |-> c.ans.kind,
     lacks |-> IF op = "update_user_data" /\ c.ans.kind = "object"
               THEN UserFields \ DOMAIN c.ans.data ELSE {},
     data |-> IF op \in {"get_device_state", "set_device_value"} THEN c.ans.data
              ELSE NoData]

NoDevices == [id \in {} |-> NewDevice(id)]

NoProfile ==
    [user_email |-> PyStr("user@example.org"), first_name |-> PyNone,
     last_name |-> PyNone, middle_name |-> PyNone]

NoApiCall ==
    [op |-> "init", ha |-> TRUE, needs |-> FALSE, rneeds |-> FALSE, prior |-> {},
     events |-> <<>>,
     exc |-> "", ret |-> PyNone, ids |-> {}, created |-> {}, resp |-> NoAnswer,
     start |-> 0, stamp |-> 0, kind |-> "none", lacks |-> {}, data |-> NoData]

SetTokens(tok) ==
    /\ access_token' = tok.access_token
    /\ access_token_expires_at' = tok.access_token_expires_at
    /\ refresh_token' = tok.refresh_token
    /\ refresh_token_expires_at' = tok.refresh_token_expires_at

\* Time passes between the operations.
Tick ==
    /\ now < MaxTime
    /\ now' = now + 1
    /\ UNCHANGED <<apiVars, devVars, hassVars>>

\* The durations of the sign-in request on the clock.
Durations == {d \in {0, 1} : now + d <= MaxTime}

SignedIn(events) == \E i \in DOMAIN events : events[i].e = "authenticate_with_email"

authenticate_with_email_call ==
    \E resp \in SignInAnswers, d \in Durations :
    \E r \in {authenticate_with_email(Stored, resp, now + d)} :
        /\ SetTokens(r.tok)
        /\ now' = now + d
        /\ acall' = ApiLog("authenticate_with_email",
                           Call(Outcome(r.exc, PyNone, Account(profile, devices), {}),
                                r.tok, r.events, NoAnswer),
                           resp, now + d)
        /\ UNCHANGED <<handle_authentication, accountVars, devVars, hassVars>>

\* authenticate(), called on its own, the sign-in answers drawn from S.
authenticate_call(S) ==
    \E resp \in S, d \in Durations :
    \E r \in {authenticate(Stored, now, resp, now + d)} :
        /\ SetTokens(r.tok)
        /\ now' = IF SignedIn(r.events) THEN now + d ELSE now
        /\ acall' = ApiLog("authenticate",
                           Call(Outcome(r.exc, PyNone, Account(profile, devices), {}),
                                r.tok, r.events, NoAnswer),
                           resp, now + d)
        /\ UNCHANGED <<handle_authentication, accountVars, devVars, hassVars>>

\* A decorated operation, the answers to its request drawn from A, to its
\* second request from A2 and to the sign-in from S. The second answer and
\* the sign-in are drawn only in the calls that get that far.
DecoratedCall(op, A, A2, S) ==
    \E a1 \in A :
    \E auth \in {Authenticates(op, handle_authentication, Stored,
                               Account(profile, devices), now, a1)} :
    \E resp \in IF auth THEN S ELSE {NoAnswer} :
    \E d \in IF auth THEN Durations ELSE {0} :
    \E a2 \in IF auth /\ ~access_token_needs_update(Stored, now) THEN A2 ELSE {a1} :
    \E c \in {handle_preliminary_auth(op, handle_authentication, Stored,
                                      Account(profile, devices), now, a1, a2, resp,
                                      now + d)} :
        /\ SetTokens(c.tok)
        /\ profile' = c.acct.profile
        /\ devices' = c.acct.devices
        /\ now' = IF SignedIn(c.events) THEN now + d ELSE now
        /\ acall' = ApiLog(op, c, resp, now + d)
        /\ UNCHANGED <<handle_authentication, devVars, hassVars>>

update_user_data_call(A, A2, S) ==
    /\ DecoratedCall("update_user_data", A, A2, S)
    /\ acall'.op = "update_user_data"

get_device_state_call(S) ==
    /\ DecoratedCall("get_device_state", StateAnswers, StateAnswers, S)
    /\ acall'.op = "get_device_state"

set_device_value_call(S) ==
    /\ DecoratedCall("set_device_value", ValueAnswers, ValueAnswers, S)
    /\ acall'.op = "set_device_value"

\* The token state the client is constructed with: none, or the one the
\* config entry stored.
StoredTokens == Tokens(PyStr("tok0"), PyInt(1), PyStr("ref0"), PyInt(1))

\* TurkovAPI(session, user_email, password, handle_authentication, **tokens)
Constructed(tok, ha) ==
    /\ access_token = tok.access_token
    /\ access_token_expires_at = tok.access_token_expires_at
    /\ refresh_token = tok.refresh_token
    /\ refresh_token_expires_at = tok.refresh_token_expires_at
    /\ handle_authentication = ha
    /\ profile = NoProfile
    /\ devices = NoDevices
    /\ acall = NoApiCall

ApiInit == \E tok \in {NoTokens, StoredTokens}, ha \in BOOLEAN : Constructed(tok, ha)

ApiIdle == Constructed(NoTokens, TRUE)

(***************************************************************************)
(* The integration: the config entry and the coordinators' polls.          *)
(***************************************************************************)
\* The host options of a config entry that has none.
NoHosts == [k \in {} |-> [f \in {} |-> PyNone]]

\* A config entry of the current version that is not set up, stores no
\* tokens and has no host options.
NoEntry == [loaded |-> FALSE, tokens |-> NoTokens, version |-> 4, hosts |-> NoHosts]

MaxPolls == 2

\* The coordinators of the account's devices, one poll each at a time.
Polls == 1 .. MaxPolls

(***************************************************************************)
(* TurkovClimateEntity: what it shows of the device, and its commands.     *)
(***************************************************************************)
attr_min_temp == 5

attr_max_temp == 40

\* The entity as constructed over a device that was never polled.
NoClimate ==
    [fan_modes |-> {"low", "medium", "high", "off"}, fan_mode |-> "off",
     hvac_modes |-> {"off"}, hvac_mode |-> "off",
     target_temperature |-> PyNone, target_humidity |-> PyNone]

has_heater(at) == at["setup"] \in {PyStr("heating"), PyStr("both")}

has_cooler(at) == at["setup"] \in {PyStr("cooling"), PyStr("both")}

is_heater_on(at) == at["selected_mode"] = PyStr("heating")

is_cooler_on(at) == at["selected_mode"] = PyStr("cooling")

\* _update_attr_fan: the fan modes offered and the one shown.
update_attr_fan(cl, at) ==
    [fan_modes |-> {"low", "medium", "high", "off"} \cup cl.fan_modes
                      \cup IF at["fan_mode"] = PyStr("both") THEN {"auto"} ELSE {},
     fan_mode |-> CASE at["fan_speed"] = PyStr("auto") -> "auto"
                    [] at["fan_speed"] = PyStr("1") -> "low"
                    [] at["fan_speed"] = PyStr("2") -> "medium"
                    [] at["fan_speed"] = PyStr("3") -> "high"
                    [] OTHER -> "off"]

\* _update_attr_hvac: the HVAC modes offered and the one shown.
update_attr_hvac(cl, at) ==
    LET hvac_modes ==
            {"off"} \cup cl.hvac_modes
                \cup (IF has_heater(at) THEN {"heat"} ELSE {})
                \cup (IF has_cooler(at) THEN {"cool"} ELSE {})
                \cup (IF has_heater(at) \/ has_cooler(at) THEN {"fan_only"} ELSE {})
                \cup (IF at["target_humidity"] # PyNone THEN {"dry"} ELSE {})
    IN  [hvac_modes |-> hvac_modes,
         hvac_mode |-> IF ~Truthy(at["is_on"]) THEN "off"
                       ELSE IF "dry" \in hvac_modes THEN "dry"
                       ELSE IF is_heater_on(at) THEN "heat"
                       ELSE IF is_cooler_on(at) THEN "cool"
                       ELSE "fan_only"]

\* _update_attr: the entity after it read the device at.
update_attr(cl, at) ==
    [fan_modes |-> update_attr_fan(cl, at).fan_modes,
     fan_mode |-> update_attr_fan(cl, at).fan_mode,
     hvac_modes |-> update_attr_hvac(cl, at).hvac_modes,
     hvac_mode |-> update_attr_hvac(cl, at).hvac_mode,
     target_temperature |-> at["target_temperature"],
     target_humidity |-> at["target_humidity"]]

\* A call of a method of the device, and what a command of the entity does:
\* the exception it raises before any call of the device, or the calls it
\* makes one after the other.
DeviceCall(m, arg) == [m |-> m, arg |-> arg]

Plan(exc, calls) == [exc |-> exc, calls |-> calls]

turn_on_unless_on(at) ==
    IF Truthy(at["is_on"]) THEN <<>> ELSE <<DeviceCall("turn_on", PyNone)>>

async_set_fan_mode(fan_mode, cl, at) ==
    IF fan_mode = "off"
    THEN Plan("", IF Truthy(at["is_on"]) THEN <<DeviceCall("turn_off", PyNone)>> ELSE <<>>)
    ELSE IF fan_mode \notin {"auto", "low", "medium", "high"} THEN Plan("ValueError", <<>>)
    ELSE Plan("", turn_on_unless_on(at)
                     \o <<DeviceCall("set_fan_speed",
                                     CASE fan_mode = "auto" -> PyStr("auto")
                                       [] fan_mode = "low" -> PyStr("1")
                                       [] fan_mode = "medium" -> PyStr("2")
                                       [] fan_mode = "high" -> PyStr("3"))>>)

async_set_hvac_mode(hvac_mode, cl, at) ==
    IF hvac_mode \notin cl.hvac_modes THEN Plan("ValueError", <<>>)
    ELSE IF hvac_mode = "off"
    THEN Plan("", IF Truthy(at["is_on"]) THEN <<DeviceCall("turn_off", PyNone)>> ELSE <<>>)
    ELSE Plan("",
              turn_on_unless_on(at) \o
              CASE hvac_mode = "fan_only" ->
                     IF is_heater_on(at) \/ is_cooler_on(at)
                     THEN <<DeviceCall("turn_off_hvac", PyNone)>> ELSE <<>>
                [] hvac_mode = "dry" ->
                     <<DeviceCall("set_target_humidity", cl.target_humidity)>>
                [] hvac_mode = "heat" ->
                     (IF is_heater_on(at) THEN <<>>
                      ELSE <<DeviceCall("turn_on_heater", PyNone)>>)
                         \o <<DeviceCall("set_target_temperature", cl.target_temperature)>>
                [] hvac_mode = "cool" ->
                     (IF is_cooler_on(at) THEN <<>>
                      ELSE <<DeviceCall("turn_on_cooler", PyNone)>>)
                         \o <<DeviceCall("set_target_temperature", cl.target_temperature)>>
                [] OTHER -> <<DeviceCall("raise ValueError", PyNone)>>)

\* async_set_temperature(**kwargs): given is whether kwargs holds the
\* temperature.
async_set_temperature(given, temperature, cl, at) ==
    IF ~given THEN Plan("ValueError", <<>>)
    ELSE Plan("", turn_on_unless_on(at)
                     \o (IF is_heater_on(at) THEN <<>>
                         ELSE <<DeviceCall("turn_on_heater", PyNone)>>)
                     \o <<DeviceCall("set_target_temperature", temperature)>>)

async_set_humidity(humidity, cl, at) ==
    Plan("", turn_on_unless_on(at) \o <<DeviceCall("set_target_humidity", humidity)>>)

\* TurkovDevice.toggle(turn_on): the method of the device it calls.
toggle(turn_on, at) ==
    IF Truthy(IF turn_on = PyNone THEN at["is_on"] ELSE turn_on)
    THEN DeviceCall("turn_on", PyNone)
    ELSE DeviceCall("turn_off", PyNone)

\* The method c of the device, the cloud answering its request with co; the
\* device defines neither turn_off_hvac nor turn_on_cooler.
DeviceMethod(c, h, api, co) ==
    CASE c.m = "turn_on" -> set_value(h, api, "on", PyStr("true"), co, co)
      [] c.m = "turn_off" -> set_value(h, api, "on", PyStr("false"), co, co)
      [] c.m = "turn_on_heater" -> set_value(h, api, "mode", PyStr("1"), co, co)
      [] c.m = "set_fan_speed" -> set_fan_speed(h, api, c.arg, co, co)
      [] c.m = "set_target_temperature" -> set_target_temperature(h, api, c.arg, co, co)
      [] c.m = "set_target_humidity" -> set_target_humidity(h, api, c.arg, co, co)
      [] c.m = "raise ValueError" -> Rejected("ValueError")
      [] OTHER -> Rejected("AttributeError")

\* The calls from the i-th on, the request of the fail-th failing: the
\* requests sent and the exception that ended the command ("" for none).
RECURSIVE RunCalls(_, _, _, _, _, _)
RunCalls(calls, i, fail, h, api, reqs) ==
    IF i > Len(calls) THEN [reqs |-> reqs, exc |-> ""]
    ELSE LET r == DeviceMethod(calls[i], h, api,
                               IF i = fail THEN Raised("TurkovAPIError")
                               ELSE Returned(PyNone))
         IN  IF r.res.exc # "" THEN [reqs |-> reqs \o r.reqs, exc |-> r.res.exc]
             ELSE RunCalls(calls, i + 1, fail, h, api, reqs \o r.reqs)

\* A command of the entity whose plan is plan.
RunPlan(plan, fail, h, api) ==
    IF plan.exc # "" THEN [reqs |-> <<>>, exc |-> plan.exc]
    ELSE RunCalls(plan.calls, 1, fail, h, api, <<>>)

\* A poll that is not running: where it is, whether its call has
\* authenticated already, and how its last run ended.
IdleTask == [pc |-> "idle", attempted |-> FALSE, exc |-> ""]

NoTasks == [t \in Polls |-> IdleTask]

\* The specifications of the client and of the device alone leave the
\* integration out.
HassIdle == config_entry = NoEntry /\ tasks = NoTasks /\ climate = NoClimate

\* The device specifications leave the API client as constructed.
TransportInit == DeviceInit /\ ApiIdle /\ HassIdle /\ now = 0

TransportNext == get_state_call \/ set_value_call

\* The transport selector alone: reads and commands.
SpecTransport == TransportInit /\ [][TransportNext]_vars

StateInit == DeviceInit /\ ApiIdle /\ HassIdle /\ now = 0

StateNext == update_state_call

\* The polled device: update_state.
SpecState == StateInit /\ [][StateNext]_vars

SetterInit == DeviceInit /\ ApiIdle /\ HassIdle /\ now = 0

SetterNext ==
    \/ set_fan_speed_call
    \/ set_target_temperature_call
    \/ set_target_humidity_call

\* The validating setters of the device.
SpecSetter == SetterInit /\ [][SetterNext]_vars

\* The API specifications leave the device as constructed.
DeviceIdle ==
    /\ host = PyNone
    /\ dev_api = TRUE
    /\ dev_type = PyNone
    /\ attrs = [a \in AttrNames |-> PyNone]
    /\ dcall = NoCall

SignInInit == ApiInit /\ DeviceIdle /\ HassIdle /\ now = 0

SignInNext ==
    \/ Tick
    \/ authenticate_with_email_call
    \/ authenticate_call(AuthenticateAnswers)

\* The sign-in alone, on the clock.
SpecSignIn == SignInInit /\ [][SignInNext]_vars

AuthInit == ApiInit /\ DeviceIdle /\ HassIdle /\ now = 0

AuthNext ==
    \/ Tick
    \/ authenticate_call(FewSignInAnswers)
    \/ update_user_data_call(FewUserDataAnswers, FewUserDataAnswers, FewSignInAnswers)
    \/ get_device_state_call(FewSignInAnswers)
    \/ set_device_value_call(FewSignInAnswers)

\* The decorated operations and authenticate(), on the clock.
SpecAuth == AuthInit /\ [][AuthNext]_vars

RegistryInit == Constructed(StoredTokens, TRUE) /\ DeviceIdle /\ HassIdle /\ now = 0

RegistryNext ==
    update_user_data_call(UserDataAnswers, FewUserDataAnswers, {Answer("object", GoodSignIn)})

\* The account refresh alone.
SpecRegistry == RegistryInit /\ [][RegistryNext]_vars

(***************************************************************************)
(* The integration's operations as actions: the setup of an account's      *)
(* entry, the coordinator's poll and a command of a device, each reaching  *)
(* the client's decorated operation behind it.                             *)
(***************************************************************************)
\* The runs of a decorated operation of the client, the answers to its
\* requests drawn from A and to the sign-in from S: the outcome c of the call,
\* the sign-in's answer and the timestamp the sign-in pinned. The second
\* answer and the sign-in are drawn only in the calls that get that far.
ClientCalls(op, A, S) ==
    UNION {
        LET auth == Authenticates(op, handle_authentication, Stored,
                                  Account(profile, devices), now, a1)
        IN  { [c |-> handle_preliminary_auth(op, handle_authentication, Stored,
                                             Account(profile, devices), now, a1, a2,
                                             resp, now + d),
               resp |-> resp, stamp |-> now + d] :
              resp \in IF auth THEN S ELSE {NoAnswer},
              d \in IF auth THEN Durations ELSE {0},
              a2 \in IF auth /\ ~access_token_needs_update(Stored, now) THEN A ELSE {a1} }
        : a1 \in A }

\* What the call c leaves in the client, if the device asked the client.
ClientEffect(op, asked, c, resp, stamp) ==
    IF asked
    THEN /\ SetTokens(c.tok)
         /\ now' = IF SignedIn(c.events) THEN stamp ELSE now
         /\ acall' = ApiLog(op, c, resp, stamp)
    ELSE UNCHANGED <<tokenVars, now, acall>>

AskedCloud(r) == \E i \in DOMAIN r.reqs : r.reqs[i].via = "cloud"

\* _async_update_data with a fault: cancellation is reported as a failed
\* update as well.
async_update_data_catching_all(exc) ==
    IF exc = "" THEN "" ELSE "UpdateFailed"

\* _async_update_data with a fault: errors escape as they are.
async_update_data_uncaught(exc) == exc

\* _async_update_data: what the poll raises for what update_state raised.
async_update_data(exc) ==
    IF exc = "" THEN ""
    ELSE IF exc = "CancelledError" THEN "CancelledError"
    ELSE "UpdateFailed"

\* What a poll's local GET /state and the cloud's /user/devices answer.
CoordinatorLocalAnswers ==
    {Returned(Payload(RawKeys, 1)), Raised("TimeoutError"), Raised("CancelledError")}

CoordinatorStateAnswers ==
    { Answer("array", <<Element("str", "object", Payload(RawKeys, 2))>>),
      Answer("array", <<>>),
      Answer("array", <<Element("dict", "", Payload(RawKeys, 1))>>),
      Answer("ClientError", NoData), Answer("CancelledError", NoData) }

CoordinatorValueAnswers ==
    { Answer("object", [f \in {"message"} |-> PyStr("success")]),
      Answer("object", [f \in {"message"} |-> PyStr("failure")]),
      Answer("CancelledError", NoData) }

PollStep(lo, c, resp, stamp) ==
    \E co \in {[exc |-> c.exc, ret |-> c.ret]} :
    \E r \in {get_state(host, dev_api, lo, co)} :
        /\ ClientEffect("get_device_state", AskedCloud(r), c, resp, stamp)
        /\ IF r.res.exc # ""
           THEN /\ attrs' = attrs
                /\ dcall' = [DeviceLog("_async_update_data", FALSE, "", PyNone, lo, co,
                                       r, EmptyPayload, {})
                             EXCEPT !.poll_exc = async_update_data(r.res.exc)]
           ELSE \E st \in {apply_state(attrs, r.res.ret, dev_type, FALSE)} :
                /\ attrs' = st.attrs
                /\ dcall' = [DeviceLog("_async_update_data", FALSE, "", PyNone, lo, co,
                                       r, r.res.ret, st.changed)
                             EXCEPT !.exc = st.exc,
                                    !.poll_exc = async_update_data(st.exc)]
        /\ UNCHANGED <<handle_authentication, accountVars, host, dev_api, dev_type,
                       hassVars>>

\* TurkovDeviceUpdateCoordinator._async_update_data: update_state, whose
\* cloud read is the client's get_device_state.
async_update_data_call ==
    /\ config_entry.loaded
    /\ \E x \in ClientCalls("get_device_state", CoordinatorStateAnswers, FewSignInAnswers),
          lo \in CoordinatorLocalAnswers :
           PollStep(lo, x.c, x.resp, x.stamp)

CommandStep(cmd, lo, c, resp, stamp) ==
    \E co \in {[exc |-> c.exc, ret |-> c.ret]} :
    \E r \in {set_value(host, dev_api, cmd[1], cmd[2], lo, co)} :
        /\ ClientEffect("set_device_value", AskedCloud(r), c, resp, stamp)
        /\ dcall' = DeviceLog("set_value", FALSE, cmd[1], cmd[2], lo, co, r,
                              EmptyPayload, {})
        /\ UNCHANGED <<handle_authentication, accountVars, host, dev_api, dev_type,
                       attrs, hassVars>>

\* A command of an entity: set_value, whose cloud command is the client's
\* set_device_value.
command_call ==
    /\ config_entry.loaded
    /\ \E x \in ClientCalls("set_device_value", CoordinatorValueAnswers, FewSignInAnswers),
          cmd \in {<<"on", PyStr("true")>>}, lo \in LocalCommandAnswers :
           CommandStep(cmd, lo, x.c, x.resp, x.stamp)

\* async_setup_email_entry: what the setup does once the client has run
\* update_user_data. A setup that failed leaves the entry as it was, and the
\* next one constructs the client from the entry again.
SetupStep(c, resp, stamp) ==
    /\ now' = IF SignedIn(c.events) THEN stamp ELSE now
    /\ acall' = ApiLog("update_user_data", c, resp, stamp)
    /\ IF c.exc = ""
       THEN /\ SetTokens(c.tok)
            /\ profile' = c.acct.profile
            /\ devices' = c.acct.devices
            /\ config_entry' = [config_entry EXCEPT !.loaded = TRUE, !.tokens = c.tok]
       ELSE /\ SetTokens(config_entry.tokens)
            /\ profile' = NoProfile
            /\ devices' = NoDevices
            /\ config_entry' = config_entry
    /\ UNCHANGED <<handle_authentication, devVars, tasks, climate>>

async_setup_email_entry_call ==
    /\ ~config_entry.loaded
    /\ \E x \in ClientCalls("update_user_data", FewUserDataAnswers, FewSignInAnswers) :
           SetupStep(x.c, x.resp, x.stamp)

\* The entry of an account stores the tokens of an earlier run or none; the
\* entry of a host alone has no client to set up.
CoordinatorInit ==
    /\ now = 0
    /\ host \in {PyNone, HostName}
    /\ dev_api \in BOOLEAN
    /\ Truthy(host) \/ dev_api
    /\ dev_type = PyStr("Zenit")
    /\ attrs = [a \in AttrNames |-> PyNone]
    /\ dcall = NoCall
    /\ tasks = NoTasks
    /\ climate = NoClimate
    /\ \E tok \in IF dev_api THEN {NoTokens, StoredTokens} ELSE {NoTokens} :
           /\ config_entry = [NoEntry EXCEPT !.loaded = ~dev_api, !.tokens = tok]
           /\ Constructed(tok, TRUE)

CoordinatorNext ==
    \/ Tick
    \/ async_setup_email_entry_call
    \/ async_update_data_call
    \/ command_call

\* The integration: setup, polls and commands on the clock.
SpecCoordinator == CoordinatorInit /\ [][CoordinatorNext]_vars

(***************************************************************************)
(* The polls of the account's devices on the event loop: each poll is a    *)
(* task that runs from one await to the next, and the tasks share the      *)
(* client. The devices have no host, so a poll is the client's decorated   *)
(* get_device_state.                                                       *)
(***************************************************************************)
\* The task of coordinator t is at pc, its call having authenticated or not.
At(t, pc, attempted, exc) ==
    tasks' = [tasks EXCEPT ![t] = [pc |-> pc, attempted |-> attempted, exc |-> exc]]

\* The poll begins and runs to its first await: the sign-in request of
\* authenticate(), if the decorator finds the access token in need of an
\* update (the refresh exchange raises at once), or else the request itself.
poll_begins(t) ==
    /\ tasks[t].pc = "idle"
    /\ IF handle_authentication /\ access_token_needs_update(Stored, now)
       THEN At(t, "authenticating", FALSE, "")
       ELSE At(t, "requesting", FALSE, "")
    /\ UNCHANGED <<now, apiVars, devVars, config_entry, climate>>

\* The answered sign-in with a fault: the task is suspended between the
\* assignments, after the two tokens and before their expiry times.
sign_in_answered_torn(t) ==
    /\ tasks[t].pc = "authenticating"
    /\ \E resp \in FewSignInAnswers :
       \E r \in {authenticate_with_email(Stored, resp, now)} :
           /\ SetTokens(Tokens(r.tok.access_token, access_token_expires_at,
                               r.tok.refresh_token, refresh_token_expires_at))
           /\ IF r.exc # "" THEN At(t, "idle", FALSE, r.exc)
              ELSE At(t, "requesting", TRUE, "")
    /\ UNCHANGED <<now, handle_authentication, accountVars, acall, devVars,
                   config_entry, climate>>

\* The sign-in of the poll's authenticate() is answered: the tokens are
\* assigned and the task goes on to its request, or the poll ends with the
\* sign-in's error.
sign_in_answered(t) ==
    /\ tasks[t].pc = "authenticating"
    /\ \E resp \in FewSignInAnswers :
       \E r \in {authenticate_with_email(Stored, resp, now)} :
           /\ SetTokens(r.tok)
           /\ IF r.exc # "" THEN At(t, "idle", FALSE, r.exc)
              ELSE At(t, "requesting", TRUE, "")
    /\ UNCHANGED <<now, handle_authentication, accountVars, acall, devVars,
                   config_entry, climate>>

\* The request of the poll is answered: the poll ends with the outcome of
\* the body, unless that is an authentication error and the call has not
\* authenticated yet, in which case authenticate() begins.
request_answered(t) ==
    /\ tasks[t].pc = "requesting"
    /\ \E ans \in CoordinatorStateAnswers :
       \E out \in {Body("get_device_state", Account(profile, devices), ans)} :
           IF out.exc = "TurkovAPIAuthenticationError"
               /\ ~(tasks[t].attempted \/ ~handle_authentication)
           THEN At(t, "authenticating", TRUE, "")
           ELSE At(t, "idle", FALSE, out.exc)
    /\ UNCHANGED <<now, apiVars, devVars, config_entry, climate>>

\* The client of an entry that is set up, with the tokens the entry stored.
ConcurrentInit ==
    /\ now = 0
    /\ DeviceIdle
    /\ tasks = NoTasks
    /\ climate = NoClimate
    /\ \E tok \in {NoTokens, StoredTokens} :
           /\ config_entry = [NoEntry EXCEPT !.loaded = TRUE, !.tokens = tok]
           /\ Constructed(tok, TRUE)

ConcurrentNext ==
    \/ Tick
    \/ \E t \in Polls : poll_begins(t)
    \/ \E t \in Polls : sign_in_answered(t)
    \/ \E t \in Polls : request_answered(t)

\* The polls of the coordinators, interleaved at their awaits.
SpecConcurrent == ConcurrentInit /\ [][ConcurrentNext]_vars

(***************************************************************************)
(* async_migrate_entry: the host options of a cloud entry, keyed by serial *)
(* number before version 4 and by device id from then on.                  *)
(***************************************************************************)
\* HOST_OPTIONS_SCHEMA: a block with another key than enable_all_entities is
\* invalid; the flag defaults to False.
HOST_OPTIONS_SCHEMA(block) ==
    IF DOMAIN block \ {"enable_all_entities"} # {}
    THEN [exc |-> "Invalid", v |-> block]
    ELSE [exc |-> "",
          v |-> [f \in {"enable_all_entities"} |->
                    IF f \in DOMAIN block THEN block[f] ELSE PyBool(FALSE)]]

\* CLOUD_OPTIONS_SCHEMA on the host options: every block validated.
CLOUD_OPTIONS_SCHEMA(hosts) ==
    IF \E k \in DOMAIN hosts : HOST_OPTIONS_SCHEMA(hosts[k]).exc # ""
    THEN [exc |-> "Invalid", v |-> hosts]
    ELSE [exc |-> "", v |-> [k \in DOMAIN hosts |-> HOST_OPTIONS_SCHEMA(hosts[k]).v]]

\* del hosts_conf[key]
Removed(hosts, key) == [k \in DOMAIN hosts \ {key} |-> hosts[k]]

\* One iteration of the loop over the serial numbers: the block is moved to
\* the id of the first device with that serial number, and whatever is under
\* the serial number afterwards is deleted.
RekeyedOne(hosts, serial, devs) ==
    LET matches == {j \in DOMAIN devs : devs[j].serial_number = PyStr(serial)}
        first == CHOOSE j \in matches : \A k \in matches : j <= k
        moved == IF matches = {} THEN hosts
                 ELSE Put(Removed(hosts, serial), devs[first].id, hosts[serial])
    IN  IF serial \in DOMAIN moved THEN Removed(moved, serial) ELSE moved

\* The loop over tuple(hosts_conf), from its i-th key on; a key is still
\* there when its turn comes, every iteration removing only its own.
RECURSIVE Rekeyed(_, _, _, _)
Rekeyed(hosts, order, i, devs) ==
    IF i > Len(order) THEN hosts
    ELSE Rekeyed(RekeyedOne(hosts, order[i], devs), order, i + 1, devs)

\* turkov_api.devices.values(): the devices in the order the answer to
\* /user lists them.
DevicesInOrder(list, reg) == [i \in DOMAIN list |-> reg[list[i]["_id"].s]]

(***************************************************************************)
(* The climate entity over a cloud device: its commands, each followed by  *)
(* the coordinator's refresh, the scheduled refresh, and toggle.           *)
(***************************************************************************)
\* A payload of the device: the fan speed it reports, whether it is on, and
\* the mode it runs in; the automatic speed comes with fan mode 'both'.
ClimatePayload(code, on, mode) ==
    [Payload(RawKeys, 1) EXCEPT !["fan_speed"] = PyStr(code),
                                !["fan_mode"] = IF code \in {"A", "auto"} THEN PyStr("both")
                                                ELSE PyStr("manual"),
                                !["on"] = PyBool(on),
                                !["mode"] = PyStr(mode)]

\* What the scheduled refresh is answered: every code set_fan_speed accepts,
\* and the text auto, on a device on or off.
ClimateStateAnswers ==
    {Returned(ClimatePayload(c, on, "none")) :
        c \in {"A", "0", "1", "2", "3", "auto"}, on \in BOOLEAN}
    \cup {Returned(ClimatePayload("1", TRUE, "heating")), Raised("TurkovAPIError")}

\* What the refresh that ends a command is answered.
CommandRefreshAnswers ==
    { Returned(ClimatePayload("1", TRUE, "none")),
      Returned(ClimatePayload("A", TRUE, "none")),
      Raised("TurkovAPIError") }

FanModeInputs == {"off", "low", "medium", "high", "auto", "turbo"}

HvacModeInputs == {"off", "heat", "cool", "fan_only", "dry"}

\* Temperatures around the bounds of the entity and of the device.
ClimateTemperatures ==
    {PyInt(i) : i \in {attr_min_temp - 1, attr_min_temp, 14, 15, 22,
                       attr_max_temp, attr_max_temp + 1, 50, 51}}

ClimateHumidities == {PyInt(i) : i \in {39, 40, 100, 101}}

\* The log of a command of the entity, or of toggle, called with arg.
ClimateLog(op, arg, run) ==
    [NoCall EXCEPT !.op = op, !.arg = arg, !.reqs = run.reqs, !.exc = run.exc]

\* coordinator.async_refresh(): update_state(), whose failure the
\* coordinator keeps to itself, then the listeners' _update_attr.
Refreshed(co) ==
    \E r \in {get_state(host, dev_api, co, co)} :
    \E at \in {IF r.res.exc = "" THEN apply_state(attrs, r.res.ret, dev_type, FALSE).attrs
               ELSE attrs} :
        /\ attrs' = at
        /\ climate' = update_attr(climate, at)

\* A command of the entity: the calls of its plan, the fail-th of which
\* fails (0: none), and if none raised, the refresh.
ClimateCommand(op, arg, plan) ==
    \E fail \in 0..Len(plan.calls) :
    \E run \in {RunPlan(plan, fail, host, dev_api)} :
        /\ IF run.exc = "" THEN \E co \in CommandRefreshAnswers : Refreshed(co)
           ELSE UNCHANGED <<attrs, climate>>
        /\ dcall' = ClimateLog(op, arg, run)
        /\ UNCHANGED <<now, apiVars, host, dev_api, dev_type, config_entry, tasks>>

async_set_fan_mode_call ==
    /\ \E fan_mode \in FanModeInputs :
           ClimateCommand("async_set_fan_mode", PyStr(fan_mode),
                          async_set_fan_mode(fan_mode, climate, attrs))
    /\ dcall'.op = "async_set_fan_mode"

async_set_hvac_mode_call ==
    /\ \E hvac_mode \in HvacModeInputs :
           ClimateCommand("async_set_hvac_mode", PyStr(hvac_mode),
                          async_set_hvac_mode(hvac_mode, climate, attrs))
    /\ dcall'.op = "async_set_hvac_mode"

async_set_temperature_call ==
    /\ \E t \in ClimateTemperatures \cup {PyNone} :
           ClimateCommand("async_set_temperature", t,
                          async_set_temperature(t # PyNone, t, climate, attrs))
    /\ dcall'.op = "async_set_temperature"

async_set_humidity_call ==
    /\ \E h \in ClimateHumidities :
           ClimateCommand("async_set_humidity", h, async_set_humidity(h, climate, attrs))
    /\ dcall'.op = "async_set_humidity"

\* The scheduled refresh of the coordinator.
async_refresh_call ==
    /\ \E co \in ClimateStateAnswers : Refreshed(co)
    /\ dcall' = [NoCall EXCEPT !.op = "async_refresh"]
    /\ UNCHANGED <<now, apiVars, host, dev_api, dev_type, config_entry, tasks>>

\* toggle(turn_on), its request failing or not.
toggle_call ==
    \E turn_on \in {PyNone, PyBool(TRUE), PyBool(FALSE)}, fail \in {0, 1} :
        /\ dcall' = ClimateLog("toggle", turn_on,
                               RunCalls(<<toggle(turn_on, attrs)>>, 1, fail, host,
                                        dev_api, <<>>))
        /\ UNCHANGED <<now, apiVars, host, dev_api, dev_type, attrs, hassVars>>

ClimateInit == DeviceIdle /\ ApiIdle /\ HassIdle /\ now = 0

ClimateNext ==
    \/ async_refresh_call
    \/ async_set_fan_mode_call
    \/ async_set_hvac_mode_call
    \/ async_set_temperature_call
    \/ async_set_humidity_call
    \/ toggle_call

\* The climate entity and its device, one handler at a time.
SpecClimate == ClimateInit /\ [][ClimateNext]_vars

(***************************************************************************)
(* One device on the event loop: refreshes (the scheduled poll, and the    *)
(* one that ends a command), commands and the entity's reads, each task    *)
(* running from one await to the next.                                     *)
(***************************************************************************)
\* The complete payloads the device answers with, one of them with a filter
\* that is null.
LoopStateAnswers ==
    { Returned(Payload(RawKeys, 1)), Returned(Payload(RawKeys, 2)),
      Returned(NullFilterPayload), Raised("TurkovAPIError") }

\* update_state() begins and runs to its await of get_state().
refresh_begins(t) ==
    /\ tasks[t].pc = "idle"
    /\ At(t, "polling", FALSE, "")
    /\ UNCHANGED <<now, apiVars, devVars, config_entry, climate>>

\* get_state() is answered: update_state runs from there to its end, or to
\* the exception of a converter, without another await.
refresh_answered(t) ==
    /\ tasks[t].pc = "polling"
    /\ \E co \in LoopStateAnswers :
       \E r \in {get_state(host, dev_api, co, co)} :
           IF r.res.exc # ""
           THEN /\ At(t, "idle", FALSE, r.res.exc)
                /\ UNCHANGED <<attrs, dcall>>
           ELSE \E st \in {apply_state(attrs, r.res.ret, dev_type, FALSE)} :
                /\ attrs' = st.attrs
                /\ dcall' = [NoCall EXCEPT !.op = "update_state", !.exc = st.exc,
                                           !.changed = st.changed]
                /\ At(t, "idle", FALSE, st.exc)
    /\ UNCHANGED <<now, apiVars, host, dev_api, dev_type, config_entry, climate>>

\* A command of the entity begins and runs to the await of its set_value.
loop_command_begins(t) ==
    /\ tasks[t].pc = "idle"
    /\ At(t, "commanding", FALSE, "")
    /\ UNCHANGED <<now, apiVars, devVars, config_entry, climate>>

\* The command's set_value is answered: the command ends with its error, or
\* goes on to coordinator.async_refresh() and its await of get_state().
loop_command_answered(t) ==
    /\ tasks[t].pc = "commanding"
    /\ \E co \in {Returned(PyNone), Raised("TurkovAPIError")} :
       \E r \in {set_value(host, dev_api, "on", PyStr("true"), co, co)} :
           IF r.res.exc # "" THEN At(t, "idle", FALSE, r.res.exc)
           ELSE At(t, "polling", FALSE, "")
    /\ UNCHANGED <<now, apiVars, devVars, config_entry, climate>>

\* _handle_coordinator_update: the entity reads the device.
handle_coordinator_update ==
    /\ climate' = update_attr(climate, attrs)
    /\ UNCHANGED <<now, apiVars, devVars, config_entry, tasks>>

LoopInit == DeviceIdle /\ ApiIdle /\ HassIdle /\ now = 0

LoopNext ==
    \/ \E t \in Polls : refresh_begins(t)
    \/ \E t \in Polls : refresh_answered(t)
    \/ \E t \in Polls : loop_command_begins(t)
    \/ \E t \in Polls : loop_command_answered(t)
    \/ handle_coordinator_update

\* The tasks around one device, interleaved at their awaits.
SpecLoop == LoopInit /\ [][LoopNext]_vars

(***************************************************************************)
(* The migration of a cloud entry of version 3.                            *)
(***************************************************************************)
\* The keys of the host options: serial numbers, one of which is also the
\* id of a device.
MigrationKeys == {"S1", "S2", "A"}

\* The option blocks: the flag set, the flag cleared, no option, a host.
MigrationBlocks ==
    { [f \in {"enable_all_entities"} |-> PyBool(TRUE)],
      [f \in {"enable_all_entities"} |-> PyBool(FALSE)],
      [f \in {} |-> PyNone],
      [f \in {"host"} |-> HostName] }

MigrationHosts == UNION {[K -> MigrationBlocks] : K \in SUBSET MigrationKeys}

MigrationEntries ==
    {DeviceEntry(PyStr(id), PyStr("Zenit"), PyStr("Home"), PyStr(serial), PyStr("1234"),
                 PyStr("1.0")) : id \in {"A", "B"}, serial \in {"S1", "S2", "A", "B"}}

\* The lists of at most MaxDevices entries with different ids.
MigrationLists ==
    {l \in UNION {[1..n -> MigrationEntries] : n \in 0..MaxDevices} :
        \A i, j \in DOMAIN l : i # j => l[i]["_id"] # l[j]["_id"]}

\* What GET /user answers the client of the migration.
MigrationAnswers ==
    {Answer("object", UserData(l)) : l \in MigrationLists}
        \cup {Answer("ClientError", NoData)}

\* The orders a dict may hold the keys K in.
Orders(K) ==
    {o \in [1..Cardinality(K) -> K] : \A i, j \in DOMAIN o : i # j => o[i] # o[j]}

MigrationLog(exc) == [NoApiCall EXCEPT !.op = "async_migrate_entry", !.exc = exc]

\* async_migrate_entry on an entry of version 3: without host options the
\* account is not asked; with them the client of async_get_updated_api
\* fetches the account, the blocks are moved, the options are validated and
\* the entry is updated. entry.version is assigned before the validation.
async_migrate_entry_call ==
    /\ config_entry.version < 4
    /\ IF config_entry.hosts = NoHosts
       THEN /\ config_entry' = [config_entry EXCEPT !.version = 4]
            /\ acall' = MigrationLog("")
            /\ UNCHANGED accountVars
       ELSE \E ans \in MigrationAnswers, order \in Orders(DOMAIN config_entry.hosts) :
            \E out \in {update_user_data(Account(NoProfile, NoDevices), ans)} :
                /\ profile' = out.acct.profile
                /\ devices' = out.acct.devices
                /\ IF out.exc # ""
                   THEN /\ acall' = MigrationLog(out.exc)
                        /\ UNCHANGED config_entry
                   ELSE \E done \in {CLOUD_OPTIONS_SCHEMA(
                                        Rekeyed(config_entry.hosts, order, 1,
                                                DevicesInOrder(ans.data["devices"],
                                                               out.acct.devices)))} :
                        /\ acall' = MigrationLog(done.exc)
                        /\ config_entry' =
                              IF done.exc # "" THEN [config_entry EXCEPT !.version = 4]
                              ELSE [config_entry EXCEPT !.version = 4, !.hosts = done.v]
    /\ UNCHANGED <<now, tokenVars, handle_authentication, devVars, tasks, climate>>

MigrateInit ==
    /\ now = 0
    /\ ApiIdle
    /\ DeviceIdle
    /\ tasks = NoTasks
    /\ climate = NoClimate
    /\ \E hosts \in MigrationHosts :
           config_entry = [NoEntry EXCEPT !.version = 3, !.hosts = hosts]

MigrateNext == async_migrate_entry_call

\* The migration of the entries of version 3.
SpecMigrate == MigrateInit /\ [][MigrateNext]_vars

(***************************************************************************)
(* Claims about the transport selector (SpecTransport).                    *)
(***************************************************************************)
CloudRequests(reqs) == {i \in DOMAIN reqs : reqs[i].via = "cloud"}

LocalRequests(reqs) == {i \in DOMAIN reqs : reqs[i].via = "local"}

\* C1: when a host is configured and the local GET /state succeeds, get_state
\* returns the payload obtained locally and makes no cloud request; a cloud
\* fetch is made only when no host is configured or the local fetch failed,
\* and a cloud client is attached.
C1_LocalStateFirst ==
    dcall.op = "get_state" =>
        /\ dcall.local_ok =>
              /\ dcall.exc = ""
              /\ dcall.data = Payload(RawKeys, 1)
              /\ CloudRequests(dcall.reqs) = {}
        /\ CloudRequests(dcall.reqs) # {} =>
              (~Truthy(host) \/ ~dcall.local_ok) /\ dev_api

\* C2: a set_value call that returns has delivered its command over exactly
\* one transport: after a successful local POST /command no cloud command is
\* issued; a cloud command is issued only when no host is configured or the
\* local command failed.
C2_OneTransport ==
    dcall.op = "set_value" =>
        /\ dcall.local_ok =>
              /\ dcall.exc = ""
              /\ CloudRequests(dcall.reqs) = {}
        /\ CloudRequests(dcall.reqs) # {} => (~Truthy(host) \/ ~dcall.local_ok)

(***************************************************************************)
(* Claims about the decorated operations and authenticate().               *)
(***************************************************************************)
DecoratedOps == {"update_user_data", "get_device_state", "set_device_value"}

\* How many events e the last call of the client had.
Count(e) == Cardinality({i \in DOMAIN acall.events : acall.events[i].e = e})

LastEvent == acall.events[Len(acall.events)]

\* The last call was a decorated operation with handle_authentication set
\* and a usable access token, and its first request met an authentication
\* error.
FirstRequestRejected ==
    /\ acall.op \in DecoratedOps
    /\ acall.ha /\ ~acall.needs
    /\ acall.events[1].e = "request"
    /\ acall.events[1].exc = "TurkovAPIAuthenticationError"

\* C3, as stated: after a first request that met an authentication error
\* (handle_authentication set, token usable at entry) the call has run
\* authenticate() exactly once and sent the request exactly once more, and
\* a second authentication error is the call's error.
C3_AlwaysRetried ==
    FirstRequestRejected =>
        /\ Count("authenticate") = 1
        /\ Count("request") = 2
        /\ LastEvent.e = "request"
        /\ LastEvent.exc = "TurkovAPIAuthenticationError"
              => acall.exc = "TurkovAPIAuthenticationError"

\* C3, amended: after a first request that met an authentication error
\* (handle_authentication set, token usable at entry) the call has run
\* authenticate() exactly once; if that returned, the request was sent
\* exactly once more and its outcome, an authentication error included, is
\* the call's; if authenticate() raised, its error is the call's and the
\* request was not sent again.
C3_RetriedOnceIfAuthenticated ==
    FirstRequestRejected =>
        /\ Count("authenticate") = 1
        /\ acall.events[2].e = "authenticate"
        /\ IF acall.events[2].exc = ""
           THEN /\ Count("request") = 2
                /\ LastEvent.e = "request"
                /\ acall.exc = LastEvent.exc
           ELSE /\ Count("request") = 1
                /\ acall.exc = acall.events[2].exc

\* A call whose request was rejected, re-sent after authenticate(), and
\* rejected again.
C3_Witness ==
    /\ FirstRequestRejected
    /\ Count("authenticate") = 1
    /\ Count("request") = 2
    /\ LastEvent.e = "request"
    /\ acall.exc = "TurkovAPIAuthenticationError"

\* C4: a decorated call runs authenticate() at most once and sends its
\* request at most twice; when authenticate() ran before the request, the
\* request is sent at most once and its outcome, an authentication error
\* included, is the call's.
C4_AtMostOneAuthenticate ==
    acall.op \in DecoratedOps =>
        /\ Count("authenticate") <= 1
        /\ Count("request") <= 2
        /\ acall.events[1].e = "authenticate" =>
              /\ Count("request") <= 1
              /\ Count("request") = 1 =>
                    LastEvent.e = "request" /\ acall.exc = LastEvent.exc

\* A call that authenticated first and whose request was rejected all the
\* same.
C4_Witness ==
    /\ acall.op \in DecoratedOps
    /\ acall.events[1].e = "authenticate"
    /\ Count("request") = 1
    /\ acall.exc = "TurkovAPIAuthenticationError"

\* C5, as stated: a decorated call sends a request only if the access token
\* was usable as it began or authenticate() ran before the request; with
\* handle_authentication unset and no usable token the call raises and sends
\* nothing.
C5_RequestOnlyAuthenticated ==
    acall.op \in DecoratedOps =>
        /\ \A i \in DOMAIN acall.events :
              acall.events[i].e = "request" =>
                  \/ ~acall.needs
                  \/ \E j \in 1..(i - 1) : acall.events[j].e = "authenticate"
        /\ ~acall.ha /\ acall.needs => acall.exc # "" /\ Count("request") = 0

\* C5, amended: with handle_authentication set, a decorated call sends a
\* request only if the access token was usable as it began or authenticate()
\* returned before the request; with handle_authentication unset it never
\* runs authenticate() and sends exactly one request, carrying the stored
\* access token whatever its state.
C5_AuthenticatedIfHandled ==
    acall.op \in DecoratedOps =>
        /\ acall.ha =>
              \A i \in DOMAIN acall.events :
                  acall.events[i].e = "request" =>
                      \/ ~acall.needs
                      \/ \E j \in 1..(i - 1) :
                            acall.events[j].e = "authenticate" /\ acall.events[j].exc = ""
        /\ ~acall.ha =>
              /\ Count("authenticate") = 0
              /\ Count("request") = 1
              /\ acall.events[1].token = access_token

\* A call with handle_authentication unset that sent its request with an
\* expired access token.
C5_Witness ==
    /\ acall.op \in DecoratedOps
    /\ ~acall.ha /\ acall.needs
    /\ Count("request") = 1
    /\ acall.events[1].token = PyStr("tok0")
    /\ PyLess(access_token_expires_at, now)

\* C6: authenticate() with a usable refresh token attempts the refresh
\* exchange first, whose failure is not raised but followed by the sign-in;
\* without a usable refresh token it signs in at once; either way its outcome
\* is the sign-in's.
C6_RefreshThenSignIn ==
    acall.op = "authenticate" =>
        /\ acall.events[1].e = "authenticate"
        /\ LastEvent.e = "authenticate_with_email"
        /\ acall.exc = LastEvent.exc
        /\ IF acall.rneeds
           THEN Len(acall.events) = 2
           ELSE Len(acall.events) = 3 /\ acall.events[2].e = "update_access_token"

\* An authenticate() that tried the refresh exchange, which is not
\* implemented, and signed in.
C6_Witness ==
    /\ acall.op = "authenticate"
    /\ ~acall.rneeds
    /\ acall.events[2].e = "update_access_token"
    /\ acall.events[2].exc = "NotImplementedError"
    /\ LastEvent.e = "authenticate_with_email"
    /\ acall.exc = ""

(***************************************************************************)
(* Claims about the sign-in.                                               *)
(***************************************************************************)
\* The answer is no JSON, or lacks one of the four members, or holds an
\* expiry that int() does not convert.
Malformed(resp) ==
    \/ resp.kind # "object"
    \/ SignInFields \ DOMAIN resp.data # {}
    \/ py_int(resp.data["accessTokenExpiresAt"]).exc # ""
    \/ py_int(resp.data["refreshTokenExpiresAt"]).exc # ""

BothEmpty(resp) == ~Truthy(resp.data["accessToken"]) /\ ~Truthy(resp.data["refreshToken"])

\* One of the two expiries of the answer is before the time t.
InPast(resp, t) ==
    \/ PyLess(py_int(resp.data["accessTokenExpiresAt"]).v, t)
    \/ PyLess(py_int(resp.data["refreshTokenExpiresAt"]).v, t)

\* The token state holds the four values of the answer, the expiries as
\* integers.
Overwritten(resp) ==
    Stored = Tokens(resp.data["accessToken"], py_int(resp.data["accessTokenExpiresAt"]).v,
                    resp.data["refreshToken"], py_int(resp.data["refreshTokenExpiresAt"]).v)

\* C7, as stated: a sign-in that got an answer raises an authentication
\* error if the answer is no JSON, lacks a member or holds an expiry that
\* does not convert, if both tokens are empty, or if an expiry is before the
\* time the request began; otherwise it returns and the token state holds
\* the four values of the answer.
C7_ExpiryAgainstStart ==
    acall.op = "authenticate_with_email" /\ acall.resp.kind \notin RequestErrors =>
        IF Malformed(acall.resp) \/ BothEmpty(acall.resp)
            \/ InPast(acall.resp, acall.start)
        THEN acall.exc = "TurkovAPIAuthenticationError"
        ELSE acall.exc = "" /\ Overwritten(acall.resp)

\* C7, amended: a sign-in whose request itself fails raises that failure; one
\* that got an answer raises an authentication error if the answer is no
\* JSON, lacks a member or holds an expiry that does not convert, if both
\* tokens are empty, or if an expiry is before the timestamp taken once the
\* answer has been read; otherwise it returns and the token state holds the
\* four values of the answer.
C7_ExpiryAgainstPinnedTimestamp ==
    acall.op = "authenticate_with_email" =>
        IF acall.resp.kind \in RequestErrors THEN acall.exc = acall.resp.kind
        ELSE IF Malformed(acall.resp) \/ BothEmpty(acall.resp)
                \/ InPast(acall.resp, acall.stamp)
        THEN acall.exc = "TurkovAPIAuthenticationError"
        ELSE acall.exc = "" /\ Overwritten(acall.resp)

\* A sign-in that took time and returned, the access token expiring at the
\* very timestamp it pinned.
C7_Witness ==
    /\ acall.op = "authenticate_with_email"
    /\ acall.exc = ""
    /\ acall.stamp > acall.start
    /\ access_token = PyStr("tokA")
    /\ access_token_expires_at = PyInt(acall.stamp)

(***************************************************************************)
(* Claims about the device registry.                                       *)
(***************************************************************************)
\* C8: after an update_user_data that returned, the registered ids are the
\* non-empty ids the answer listed, every device is registered under its own
\* id and carries the fields of an entry, and a device was constructed for
\* exactly the listed ids that were not registered before: the devices of
\* the ids registered before are the ones that were there, and the ids not
\* listed are gone.
C8_RegistryReconciled ==
    acall.op = "update_user_data" /\ acall.exc = "" =>
        /\ DOMAIN devices = acall.ids
        /\ \A id \in DOMAIN devices :
              /\ devices[id].id = id
              /\ devices[id].type # PyNone /\ devices[id].firmware_version # PyNone
        /\ acall.created = acall.ids \ acall.prior

\* The registry {A, B} met the answer {B, C}: A is gone, B was kept, C was
\* constructed.
C8_Witness ==
    /\ acall.op = "update_user_data" /\ acall.exc = ""
    /\ acall.prior = {"A", "B"}
    /\ acall.ids = {"B", "C"}
    /\ DOMAIN devices = {"B", "C"}
    /\ acall.created = {"C"}

(***************************************************************************)
(* Claims about update_state and absent keys.                              *)
(***************************************************************************)
\* The step is an update_state with the given flag that returned.
Updated(flag) ==
    dcall'.op = "update_state" /\ dcall'.flag = flag /\ dcall'.exc = ""

\* The attributes whose raw key the payload of the step lacks.
Absent == {a \in AttrNames : ATTRIBUTE_KEY_MAPPING[a].key \notin DOMAIN dcall'.data}

\* The attributes of the table the generic loop handles: all but image_url.
Generic == {a \in AttrNames : ATTRIBUTE_KEY_MAPPING[a].conv # "False"}

\* The attribute keeps its value in the step and is not reported as changed.
Kept(a) == attrs'[a] = attrs[a] /\ a \notin dcall'.changed

\* The attribute is null after the step, and reported iff it was not before.
Nulled(a) == attrs'[a] = PyNone /\ (a \in dcall'.changed <=> attrs[a] # PyNone)

\* The default image of the device's type, if it has one.
DefaultImage == derived_image_url(EmptyPayload, dev_type)

\* C9, as stated: in an update_state without the flag, every attribute of
\* the table whose raw key the payload lacks, image_url included, keeps its
\* value and is not in the changed-set.
C9_AbsentKept ==
    [][Updated(FALSE) => \A a \in Absent : Kept(a)]_vars

\* C9, amended: in an update_state without the flag, every attribute of the
\* table but image_url whose raw key the payload lacks keeps its value and is
\* not in the changed-set; image_url, when the payload lacks 'image' and the
\* device's type has a default image, becomes that default and is in the
\* changed-set iff it was not that already.
C9_AbsentKeptButImage ==
    [][Updated(FALSE) =>
          /\ \A a \in Absent \cap Generic : Kept(a)
          /\ "image_url" \in Absent /\ DefaultImage # PyNone =>
                /\ attrs'["image_url"] = DefaultImage
                /\ "image_url" \in dcall'.changed <=> attrs["image_url"] # DefaultImage
      ]_vars

\* An update_state without the flag whose payload lacked 'temp_sp': the
\* target temperature has the value it had, other attributes changed.
C9_Witness ==
    /\ dcall.op = "update_state" /\ ~dcall.flag /\ dcall.exc = ""
    /\ "temp_sp" \notin DOMAIN dcall.data
    /\ attrs["target_temperature"] # PyNone
    /\ "target_temperature" \notin dcall.changed
    /\ dcall.changed # {}

\* C10, as stated: in an update_state with the flag, every attribute of the
\* table whose raw key the payload lacks is null afterwards, and is in the
\* changed-set iff it was not null before.
C10_AbsentNulled ==
    [][Updated(TRUE) => \A a \in Absent : Nulled(a)]_vars

\* C10, amended: in an update_state with the flag, every attribute of the
\* table but image_url whose raw key the payload lacks is null afterwards,
\* and is in the changed-set iff it was not null before; so is image_url,
\* when the payload lacks 'image', if the device's type has no default image.
C10_AbsentNulledButImage ==
    [][Updated(TRUE) =>
          /\ \A a \in Absent \cap Generic : Nulled(a)
          /\ "image_url" \in Absent /\ DefaultImage = PyNone => Nulled("image_url")
      ]_vars

\* An update_state with the flag whose payload lacked 'temp_sp': the target
\* temperature is null and in the changed-set.
C10_Witness ==
    /\ dcall.op = "update_state" /\ dcall.flag /\ dcall.exc = ""
    /\ "temp_sp" \notin DOMAIN dcall.data
    /\ DOMAIN dcall.data # {}
    /\ attrs["target_temperature"] = PyNone
    /\ "target_temperature" \in dcall.changed

(***************************************************************************)
(* Claims about what update_state reports.                                 *)
(***************************************************************************)
\* The step is an update_state that returned, as did the update_state
\* before it, which had the same flag and got the same payload.
Repeated ==
    /\ dcall.op = "update_state" /\ dcall.exc = ""
    /\ dcall'.op = "update_state" /\ dcall'.exc = ""
    /\ dcall'.flag = dcall.flag
    /\ dcall'.data = dcall.data

C12_ChangedSetExact ==
    [][dcall'.op = "update_state" /\ dcall'.exc = "" =>
          dcall'.changed = {a \in AttrNames : attrs'[a] # attrs[a]}]_vars

\* An update_state that changed some attributes and not others.
C12_Witness ==
    /\ dcall.op = "update_state" /\ dcall.exc = ""
    /\ "is_on" \in dcall.changed
    /\ "target_temperature" \notin dcall.changed
    /\ attrs["target_temperature"] # PyNone

(***************************************************************************)
(* Claims about the image URL.                                             *)
(***************************************************************************)
\* The payload of the step carries an image reference.
ExplicitImage == "image" \in DOMAIN dcall'.data /\ Truthy(dcall'.data["image"])

\* C13, as stated: after an update_state that returned, with either flag,
\* image_url is the URL composed from the payload's image reference if it
\* carries one, else the default image of the device's type if it has one,
\* else what it was.
C13_ImageDerived ==
    [][dcall'.op = "update_state" /\ dcall'.exc = "" =>
          attrs'["image_url"] =
              IF ExplicitImage \/ DefaultImage # PyNone
              THEN derived_image_url(dcall'.data, dev_type)
              ELSE attrs["image_url"]]_vars

(***************************************************************************)
(* Claims about the fallback to the cloud.                                 *)
(***************************************************************************)
\* C14: a get_state on a device with a host whose local request raised a
\* timeout, a client error or a decode error: with a cloud client attached
\* the cloud is asked and its outcome is the call's; without one the call
\* raises the local error and asks nobody else.
C14_LocalFailureFallsBack ==
    dcall.op = "get_state" /\ Truthy(host) /\ dcall.local_exc \in LocalFallbackErrors =>
        IF dev_api
        THEN /\ CloudRequests(dcall.reqs) # {}
             /\ dcall.exc = dcall.cloud.exc
             /\ dcall.exc = "" => dcall.data = dcall.cloud.ret
        ELSE /\ CloudRequests(dcall.reqs) = {}
             /\ dcall.exc = dcall.local_exc

\* A get_state whose local request timed out and that returned the payload
\* of the cloud.
C14_Witness ==
    /\ dcall.op = "get_state" /\ Truthy(host) /\ dev_api
    /\ dcall.local_exc = "TimeoutError"
    /\ dcall.exc = ""
    /\ dcall.data = Payload(RawKeys, 2)

\* The last call raised the error of having no method: a TurkovAPIError
\* without the cloud having been asked.
NoMethod == dcall.exc = "TurkovAPIError" /\ CloudRequests(dcall.reqs) = {}

\* C15: get_state and set_value raise the error of having no method only on
\* a device with neither a host nor a cloud client; on a device with a host
\* and no cloud client a call whose local request was answered returns.
C15_NoMethodOnlyWithoutTransport ==
    dcall.op \in {"get_state", "set_value"} =>
        /\ NoMethod => ~Truthy(host) /\ ~dev_api
        /\ Truthy(host) /\ ~dev_api /\ dcall.local_ok => dcall.exc = ""

(***************************************************************************)
(* Claims about the integration (SpecCoordinator).                         *)
(***************************************************************************)
Polled == dcall.op = "_async_update_data"

\* The refresh exchange of the client's last call was cancelled at event i.
RefreshCancelled(i) ==
    /\ acall.events[i].e = "update_access_token"
    /\ acall.events[i].exc = "CancelledError"

\* C16: a cancellation is re-raised as it is and nothing follows it: a
\* cancelled local command of set_value or local read of a poll ends the call
\* with the cancellation and without a cloud request, a cancelled refresh
\* exchange of authenticate ends the client's call with the cancellation and
\* without a sign-in, and a poll whose update_state was cancelled raises the
\* cancellation, not a failed update.
C16_CancellationReraised ==
    /\ dcall.op \in {"set_value", "_async_update_data"} /\ dcall.local_exc = "CancelledError"
           => dcall.exc = "CancelledError" /\ CloudRequests(dcall.reqs) = {}
    /\ \A i \in DOMAIN acall.events :
           RefreshCancelled(i)
               => /\ acall.exc = "CancelledError"
                  /\ \A j \in DOMAIN acall.events :
                         j > i => acall.events[j].e # "authenticate_with_email"
    /\ Polled /\ dcall.exc = "CancelledError" => dcall.poll_exc = "CancelledError"

\* A poll of a device with a host and a client was cancelled in its local
\* read.
C16_Witness ==
    /\ Polled /\ dev_api /\ Truthy(host)
    /\ dcall.local_exc = "CancelledError"
    /\ dcall.poll_exc = "CancelledError"

\* C19: a poll whose update_state raised anything but a cancellation raises
\* UpdateFailed.
C19_ErrorsBecomeUpdateFailed ==
    Polled /\ dcall.exc \notin {"", "CancelledError"} => dcall.poll_exc = "UpdateFailed"

\* A poll failed with the authentication error of a rejected sign-in.
C19_Witness ==
    /\ Polled
    /\ dcall.exc = "TurkovAPIAuthenticationError"
    /\ dcall.poll_exc = "UpdateFailed"

\* C18: once the entry of an account is set up, the tokens in its data are
\* the client's tokens, after the setup and after every later poll or command.
C18_PersistedTokensAgree ==
    dev_api /\ config_entry.loaded => config_entry.tokens = Stored

(***************************************************************************)
(* Claims about the concurrent polls (SpecConcurrent).                     *)
(***************************************************************************)
\* The polls whose authenticate() is in progress, waiting for its sign-in.
Authenticating == {t \in Polls : tasks[t].pc = "authenticating"}

\* C17: at no time are two authenticate() calls in progress on the shared
\* client, so no two polls are about to write its tokens.
C17_AuthenticationSerialized == Cardinality(Authenticating) <= 1

(***************************************************************************)
(* Claims about the errors of update_user_data (SpecRegistry).             *)
(***************************************************************************)
\* The last answer to GET /user is no JSON: response.json() raised for its
\* content type or for its text.
NotJSON == acall.kind \in {"ContentTypeError", "JSONDecodeError"}

\* C20: update_user_data whose last answer lacks one of the five members, or
\* is no JSON, raises the authentication error.
C20_AuthenticationErrorOnly ==
    acall.op = "update_user_data" /\ LastEvent.e = "request"
        /\ (acall.lacks # {} \/ NotJSON)
        => acall.exc = "TurkovAPIAuthenticationError"

(***************************************************************************)
(* Claims about the cloud requests of a device (SpecAuth).                 *)
(***************************************************************************)
\* The last request of the client's last call was answered, its answer being
\* whatever the server sent.
Answered == LastEvent.e = "request" /\ acall.kind \notin RequestErrors

\* The last answer is a list whose last element is a string holding a JSON
\* object.
WellFormedState ==
    /\ acall.kind = "array"
    /\ Len(acall.data) > 0
    /\ acall.data[Len(acall.data)].k = "str"
    /\ acall.data[Len(acall.data)].doc = "object"

\* C21: get_device_state returns the object its answer's last element holds,
\* and raises TurkovAPIError, nothing else, for every other answer.
C21_StateDecodedOrClientError ==
    acall.op = "get_device_state" /\ Answered
        => IF WellFormedState
           THEN acall.exc = "" /\ acall.ret = acall.data[Len(acall.data)].data
           ELSE acall.exc = "TurkovAPIError"

\* The last answer is an object whose message is the literal success.
SuccessMessage ==
    /\ acall.kind = "object"
    /\ "message" \in DOMAIN acall.data
    /\ acall.data["message"] = PyStr("success")

\* C22: set_device_value returns exactly when the answer is an object whose
\* message is "success", and raises TurkovAPIError for every other answer.
C22_SuccessIffMessage ==
    acall.op = "set_device_value" /\ Answered
        => /\ acall.exc = "" <=> SuccessMessage
           /\ ~SuccessMessage => acall.exc = "TurkovAPIError"

\* A command was answered with another message and raised the client error.
C22_Witness ==
    /\ acall.op = "set_device_value" /\ Answered
    /\ acall.kind = "object" /\ "message" \in DOMAIN acall.data
    /\ ~SuccessMessage
    /\ acall.exc = "TurkovAPIError"

(***************************************************************************)
(* Claims about the token state (SpecSignIn).                              *)
(***************************************************************************)
\* C23: access_token_needs_update is true exactly when the access token is
\* None or empty, its expiry is None, or its expiry is before the current
\* time: true for an expiry of now - 1, false for now and for now + 1.
C23_NeedsUpdateExact ==
    access_token_needs_update(Stored, now)
        <=> \/ access_token \in {PyNone, PyStr("")}
            \/ access_token_expires_at = PyNone
            \/ access_token_expires_at.n < now

\* The client holds an access token that expired one second ago.
C23_Witness ==
    /\ access_token \notin {PyNone, PyStr("")}
    /\ access_token_expires_at # PyNone
    /\ access_token_expires_at.n = now - 1
    /\ access_token_needs_update(Stored, now)

(***************************************************************************)
(* Claims about the validating setters (SpecSetter).                       *)
(***************************************************************************)
ValueRejected == dcall.exc = "TurkovAPIValueError"

\* Every request of the last call carried key with the value v.
SentOnly(key, v) ==
    \A i \in DOMAIN dcall.reqs : dcall.reqs[i].key = key /\ dcall.reqs[i].value = v

\* The last call reached set_value: a request was made, or there was no
\* transport to make it on.
ReachedSetValue == dcall.reqs # <<>> \/ (~Truthy(host) /\ ~dev_api)

\* C24: set_target_temperature called with a whole number raises the value
\* error exactly when the number is below 15 or above 50, and then sends no
\* request; otherwise it goes on to set_value with temp_sp and the number.
C24_TemperatureBounds ==
    dcall.op = "set_target_temperature" /\ dcall.arg.k = "int"
        => /\ ValueRejected <=> ~(15 <= dcall.arg.n /\ dcall.arg.n <= 50)
           /\ ValueRejected => dcall.reqs = <<>>
           /\ ~ValueRejected => ReachedSetValue /\ SentOnly("temp_sp", dcall.arg)

\* A temperature of 51 was rejected on a device with both transports.
C24_Witness ==
    /\ dcall.op = "set_target_temperature" /\ dcall.arg = PyInt(51)
    /\ Truthy(host) /\ dev_api
    /\ ValueRejected /\ dcall.reqs = <<>>

\* C25: set_target_humidity called with a whole number raises the value
\* error exactly when the number is below 40 or above 100, and then sends no
\* request; otherwise it goes on to set_value with hum_sp and the number.
C25_HumidityBounds ==
    dcall.op = "set_target_humidity" /\ dcall.arg.k = "int"
        => /\ ValueRejected <=> ~(40 <= dcall.arg.n /\ dcall.arg.n <= 100)
           /\ ValueRejected => dcall.reqs = <<>>
           /\ ~ValueRejected => ReachedSetValue /\ SentOnly("hum_sp", dcall.arg)

\* A humidity of 39 was rejected on a device with both transports.
C25_Witness ==
    /\ dcall.op = "set_target_humidity" /\ dcall.arg = PyInt(39)
    /\ Truthy(host) /\ dev_api
    /\ ValueRejected /\ dcall.reqs = <<>>

\* C26: set_fan_speed raises the value error exactly for a string that is
\* none of "A", "0", "1", "2", "3", and then sends no request; otherwise it
\* goes on to set_value with fan_speed and the code.
C26_FanSpeedCodes ==
    dcall.op = "set_fan_speed"
        => /\ ValueRejected <=> dcall.arg.s \notin {"A", "0", "1", "2", "3"}
           /\ ValueRejected => dcall.reqs = <<>>
           /\ ~ValueRejected => ReachedSetValue /\ SentOnly("fan_speed", dcall.arg)

\* The code "auto" was rejected on a device with both transports.
C26_Witness ==
    /\ dcall.op = "set_fan_speed" /\ dcall.arg = PyStr("auto")
    /\ Truthy(host) /\ dev_api
    /\ ValueRejected /\ dcall.reqs = <<>>

(***************************************************************************)
(* Claims about a failing update_state (SpecState).                        *)
(***************************************************************************)
\* C27: an update_state that raises leaves every attribute of the device as
\* it was before the call.
C27_FailureChangesNothing ==
    [][dcall'.op = "update_state" /\ dcall'.exc # "" => attrs' = attrs]_vars

(***************************************************************************)
(* Claims about the token state after authenticate (SpecSignIn).           *)
(***************************************************************************)
\* authenticate() has just returned: no time has passed since its sign-in
\* pinned the timestamp.
JustAuthenticated ==
    acall.op = "authenticate" /\ acall.exc = "" /\ now = acall.stamp

\* C28, as stated: right after an authenticate() that returned, the access
\* token is non-empty and unexpired: access_token_needs_update is false.
C28_AuthenticatedAfterAuthenticate ==
    JustAuthenticated => ~access_token_needs_update(Stored, now)

\* C28, amended: right after an authenticate() that returned, the token state
\* is that of the sign-in's answer, the access token is unexpired, and
\* access_token_needs_update is false exactly when the access token of the
\* answer is non-empty.
C28_AuthenticatedIfAccessToken ==
    JustAuthenticated
        => /\ Overwritten(acall.resp)
           /\ access_token_expires_at.n >= now
           /\ ~access_token_needs_update(Stored, now) <=> Truthy(access_token)

\* authenticate() has just returned with a usable access token after a
\* sign-in that took time.
C28_Witness ==
    /\ JustAuthenticated
    /\ acall.stamp > acall.start
    /\ Truthy(access_token)
    /\ ~access_token_needs_update(Stored, now)

\* C29: a sign-in that raises the authentication error leaves the four token
\* fields as they were before the call.
C29_FailedSignInKeepsTokens ==
    [][acall'.op = "authenticate_with_email"
          /\ acall'.exc = "TurkovAPIAuthenticationError"
          => tokenVars' = tokenVars]_vars

\* A client holding tokens whose sign-in was rejected for an expiry in the
\* past, and which still holds them.
C29_Witness ==
    /\ acall.op = "authenticate_with_email"
    /\ acall.exc = "TurkovAPIAuthenticationError"
    /\ ~Malformed(acall.resp) /\ InPast(acall.resp, acall.stamp)
    /\ Stored = StoredTokens

(***************************************************************************)
(* Claims about a failing update_user_data (SpecRegistry).                 *)
(***************************************************************************)
\* C30: an update_user_data that raises leaves the user's profile, the device
\* registry and the fields of every registered device as they were before
\* the call.
C30_FailureKeepsRegistry ==
    [][acall'.op = "update_user_data" /\ acall'.exc # ""
          => accountVars' = accountVars]_vars

(***************************************************************************)
(* The token of the request sent again.                                    *)
(***************************************************************************)
\* The last call was a decorated operation that sent its request twice.
Retried == acall.op \in DecoratedOps /\ Count("request") = 2

\* C31: the request a decorated operation sends again after authenticate()
\* carries the access token that authenticate() stored: the accessToken of
\* the sign-in answer, which is the token the client holds after the call.
C31_RetryCarriesNewToken ==
    Retried =>
        /\ LastEvent.e = "request"
        /\ acall.events[1].e = "request"
        /\ acall.resp.kind = "object"
        /\ LastEvent.token = acall.resp.data["accessToken"]
        /\ LastEvent.token = access_token

\* A request sent again with another token than the rejected one.
C31_Witness ==
    /\ Retried
    /\ acall.events[1].exc = "TurkovAPIAuthenticationError"
    /\ LastEvent.token # acall.events[1].token
    /\ LastEvent.token = PyStr("tokA")

(***************************************************************************)
(* The token fields under concurrent authentication (SpecConcurrent).      *)
(***************************************************************************)
\* The token states of one source: the constructor's arguments, or the four
\* members of one sign-in answer.
TokenSources ==
    {NoTokens, StoredTokens}
        \cup {Tokens(a.data["accessToken"], py_int(a.data["accessTokenExpiresAt"]).v,
                     a.data["refreshToken"], py_int(a.data["refreshTokenExpiresAt"]).v) :
                 a \in {x \in FewSignInAnswers :
                            x.kind = "object" /\ SignInFields \subseteq DOMAIN x.data}}

\* C32: wherever the tasks are between their awaits, the four token fields
\* of the shared client are those of one source.
C32_TokensOfOneSource == Stored \in TokenSources

\* A sign-in has stored its tokens while the authenticate() of another poll
\* is still waiting for its own.
C32_Witness ==
    \E t \in Authenticating : \E u \in Polls \ {t} :
        /\ tasks[u].pc = "requesting"
        /\ tasks[u].attempted
        /\ Stored \notin {NoTokens, StoredTokens}

(***************************************************************************)
(* Claims about the commands of the climate entity (SpecClimate).          *)
(***************************************************************************)
ClimateCommands ==
    {"async_set_fan_mode", "async_set_hvac_mode", "async_set_temperature",
     "async_set_humidity"}

\* C34: a command of the climate entity that ended with a setter's value
\* error has sent nothing to the device.
C34_RejectedSendsNothing ==
    dcall.op \in ClimateCommands /\ dcall.exc = "TurkovAPIValueError"
        => dcall.reqs = <<>>

\* The fan modes the entity offered before the step, other than off, that
\* the claim names.
OfferedFanModes == {PyStr(m) : m \in climate.fan_modes \cap {"low", "medium", "high", "auto"}}

\* How the claim has the code c displayed.
FanModeOf(c) ==
    CASE c = PyStr("A") -> "auto"
      [] c = PyStr("1") -> "low"
      [] c = PyStr("2") -> "medium"
      [] c = PyStr("3") -> "high"
      [] c = PyStr("0") -> "off"

\* C35: async_set_fan_mode with an offered mode other than off is not
\* rejected by set_fan_speed, and a device reporting a code set_fan_speed
\* accepts is shown in the fan mode of that code.
C35_FanModeRoundTrip ==
    [][/\ dcall'.op = "async_set_fan_mode" /\ dcall'.arg \in OfferedFanModes
           => dcall'.exc # "TurkovAPIValueError"
       /\ dcall'.op = "async_refresh" /\ attrs'["fan_speed"] \in FanSpeeds
           => climate'.fan_mode = FanModeOf(attrs'["fan_speed"])]_vars

\* C36: every whole temperature within attr_min_temp..attr_max_temp is
\* accepted by set_target_temperature, and every temperature it sends to the
\* device lies within attr_min_temp..attr_max_temp.
C36_AdvertisedRangeIsDeviceRange ==
    dcall.op = "async_set_temperature" /\ dcall.arg # PyNone =>
        /\ attr_min_temp <= dcall.arg.n /\ dcall.arg.n <= attr_max_temp
              => dcall.exc # "TurkovAPIValueError"
        /\ \A i \in DOMAIN dcall.reqs :
              dcall.reqs[i].key = "temp_sp"
                  => /\ attr_min_temp <= dcall.reqs[i].value.n
                     /\ dcall.reqs[i].value.n <= attr_max_temp

\* C37: toggle() without an argument, on a device known to be on or off,
\* sends the opposite of is_on, and toggle(turn_on) sends turn_on.
C37_ToggleFlips ==
    dcall.op = "toggle" /\ (dcall.arg = PyNone => attrs["is_on"].k = "bool") =>
        /\ Len(dcall.reqs) = 1
        /\ dcall.reqs[1].key = "on"
        /\ dcall.reqs[1].value =
              IF dcall.arg = PyNone
              THEN (IF attrs["is_on"] = PyBool(TRUE) THEN PyStr("false") ELSE PyStr("true"))
              ELSE (IF dcall.arg = PyBool(TRUE) THEN PyStr("true") ELSE PyStr("false"))

(***************************************************************************)
(* Claims about the device among the tasks of the event loop (SpecLoop).   *)
(***************************************************************************)
\* The attributes of a device that applied the i-th complete payload.
Reading(i) ==
    apply_state([a \in AttrNames |-> PyNone], Payload(RawKeys, i), dev_type, FALSE).attrs

\* The attributes that hold the value of the i-th payload and of no other.
Holding(i) ==
    {a \in AttrNames : attrs[a] = Reading(i)[a] /\ Reading(1)[a] # Reading(2)[a]}

\* C33: wherever the tasks are between their awaits, the attributes of the
\* device are not a mix of the values of two payloads.
C33_NoMixedPayloads == Holding(1) = {} \/ Holding(2) = {}

(***************************************************************************)
(* Claims about the migration of the host options (SpecMigrate).           *)
(***************************************************************************)
\* The ids of the devices of the account reg whose serial number is serial.
DevicesWithSerial(reg, serial) ==
    {id \in DOMAIN reg : reg[id].serial_number = PyStr(serial)}

\* C38: after a migration that updated the entry, the block of every serial
\* number of a known device is, as the options schema fills it, under the id
\* of such a device, and every key left is the id of a device whose serial
\* number had a block.
C38_BlocksFollowDevices ==
    [][acall'.op = "async_migrate_entry" /\ acall'.exc = "" =>
        /\ \A serial \in DOMAIN config_entry.hosts :
              DevicesWithSerial(devices', serial) # {} =>
                  \E id \in DevicesWithSerial(devices', serial) :
                      /\ id \in DOMAIN config_entry'.hosts
                      /\ config_entry'.hosts[id]
                            = HOST_OPTIONS_SCHEMA(config_entry.hosts[serial]).v
        /\ \A key \in DOMAIN config_entry'.hosts :
              \E serial \in DOMAIN config_entry.hosts :
                  key \in DevicesWithSerial(devices', serial)]_vars
====
